---- MODULE Spec2Model ----
(***************************************************************************)
(* The professor-discovery pipeline of src/app.py: CV keyword analysis,    *)
(* query planning, the Tavily search / extract loop, the LLM matcher with  *)
(* its normalisation of the raw professor list, profile enrichment and     *)
(* the hiring-status analysis.                                            *)
(*                                                                         *)
(* Conventions.  A text (a Python str) is a tuple of one-character         *)
(* strings, so that `in`, lower() and concatenation are computed on the    *)
(* characters.  The empty tuple stands for every falsy text value: None,   *)
(* "" and a key that is missing from a dict read with .get().  The         *)
(* external capabilities (Tavily search / extract, the LLM) are the        *)
(* environment: each call's outcome is chosen with \E from the sets that   *)
(* the record env names.                                                   *)
(***************************************************************************)
EXTENDS Integers, Sequences, FiniteSets, TLC

\* ---------------------------------------------------------------- bounds
\* Queries of one run whose search call may raise.
MaxFail == 2
\* Hits the search capability returns in one run, over all queries.
MaxHits == 6
\* Hits one query returns (tavily_params max_results as used by the runs).
MaxResults == 3
\* Length of the hit list the extraction specification starts from.
MaxExtractHits == 2

\* ------------------------------------------------------------- utilities
Min(a, b) == IF a <= b THEN a ELSE b

Range(s) == {s[i] : i \in 1..Len(s)}

\* Python truthiness of a text / list value (None, "" and [] are falsy).
Truthy(v) == v # <<>>

\* Python `sub in s` on strings.
In(sub, s) ==
  \E i \in 0..(Len(s) - Len(sub)) : SubSeq(s, i + 1, i + Len(sub)) = sub

UpperToLower ==
  [c \in {"A","B","C","D","E","F","G","H","I","J","K","L","M","N","O","P","Q",
          "R","S","T","U","V","W","X","Y","Z"} |->
     CASE c = "A" -> "a" [] c = "B" -> "b" [] c = "C" -> "c" [] c = "D" -> "d"
       [] c = "E" -> "e" [] c = "F" -> "f" [] c = "G" -> "g" [] c = "H" -> "h"
       [] c = "I" -> "i" [] c = "J" -> "j" [] c = "K" -> "k" [] c = "L" -> "l"
       [] c = "M" -> "m" [] c = "N" -> "n" [] c = "O" -> "o" [] c = "P" -> "p"
       [] c = "Q" -> "q" [] c = "R" -> "r" [] c = "S" -> "s" [] c = "T" -> "t"
       [] c = "U" -> "u" [] c = "V" -> "v" [] c = "W" -> "w" [] c = "X" -> "x"
       [] c = "Y" -> "y" [] c = "Z" -> "z"]

\* str.lower()
Lower(s) ==
  [i \in 1..Len(s) |-> IF s[i] \in DOMAIN UpperToLower THEN UpperToLower[s[i]] ELSE s[i]]

\* ' '.join(parts) and the other joins of texts
RECURSIVE Join(_, _)
Join(parts, sep) ==
  IF parts = <<>> THEN <<>>
  ELSE IF Len(parts) = 1 THEN parts[1]
  ELSE parts[1] \o sep \o Join(Tail(parts), sep)

\* list.extend over a list of lists
RECURSIVE Flatten(_)
Flatten(ss) == IF ss = <<>> THEN <<>> ELSE ss[1] \o Flatten(Tail(ss))

\* ------------------------------------------------- keyword tables (app.py)
research_keywords ==
  << [area |-> "computer_science", keywords |->
        << <<"c","o","m","p","u","t","e","r"," ","s","c","i","e","n","c","e">>,
           <<"C","S">>,
           <<"c","o","m","p","u","t","i","n","g">>,
           <<"s","o","f","t","w","a","r","e"," ","e","n","g","i","n","e","e","r","i","n","g">>,
           <<"p","r","o","g","r","a","m","m","i","n","g">> >>],
     [area |-> "artificial_intelligence", keywords |->
        << <<"a","r","t","i","f","i","c","i","a","l"," ","i","n","t","e","l","l","i","g","e","n","c","e">>,
           <<"A","I">>,
           <<"m","a","c","h","i","n","e"," ","l","e","a","r","n","i","n","g">>,
           <<"M","L">>,
           <<"d","e","e","p"," ","l","e","a","r","n","i","n","g">>,
           <<"n","e","u","r","a","l"," ","n","e","t","w","o","r","k","s">> >>],
     [area |-> "data_science", keywords |->
        << <<"d","a","t","a"," ","s","c","i","e","n","c","e">>,
           <<"d","a","t","a"," ","a","n","a","l","y","t","i","c","s">>,
           <<"b","i","g"," ","d","a","t","a">>,
           <<"s","t","a","t","i","s","t","i","c","s">>,
           <<"a","n","a","l","y","t","i","c","s">> >>],
     [area |-> "cybersecurity", keywords |->
        << <<"c","y","b","e","r","s","e","c","u","r","i","t","y">>,
           <<"s","e","c","u","r","i","t","y">>,
           <<"c","y","b","e","r">>,
           <<"i","n","f","o","r","m","a","t","i","o","n"," ","s","e","c","u","r","i","t","y">>,
           <<"n","e","t","w","o","r","k"," ","s","e","c","u","r","i","t","y">> >>],
     [area |-> "robotics", keywords |->
        << <<"r","o","b","o","t","i","c","s">>,
           <<"r","o","b","o","t","s">>,
           <<"a","u","t","o","m","a","t","i","o","n">>,
           <<"c","o","n","t","r","o","l"," ","s","y","s","t","e","m","s">> >>],
     [area |-> "bioinformatics", keywords |->
        << <<"b","i","o","i","n","f","o","r","m","a","t","i","c","s">>,
           <<"c","o","m","p","u","t","a","t","i","o","n","a","l"," ","b","i","o","l","o","g","y">>,
           <<"g","e","n","o","m","i","c","s">>,
           <<"b","i","o">> >>],
     [area |-> "electrical_engineering", keywords |->
        << <<"e","l","e","c","t","r","i","c","a","l"," ","e","n","g","i","n","e","e","r","i","n","g">>,
           <<"E","E">>,
           <<"e","l","e","c","t","r","o","n","i","c","s">>,
           <<"c","i","r","c","u","i","t","s">> >>],
     [area |-> "mechanical_engineering", keywords |->
        << <<"m","e","c","h","a","n","i","c","a","l"," ","e","n","g","i","n","e","e","r","i","n","g">>,
           <<"M","E">>,
           <<"m","e","c","h","a","n","i","c","s">>,
           <<"d","y","n","a","m","i","c","s">> >>],
     [area |-> "civil_engineering", keywords |->
        << <<"c","i","v","i","l"," ","e","n","g","i","n","e","e","r","i","n","g">>,
           <<"C","E">>,
           <<"s","t","r","u","c","t","u","r","e","s">>,
           <<"c","o","n","s","t","r","u","c","t","i","o","n">> >>],
     [area |-> "mathematics", keywords |->
        << <<"m","a","t","h","e","m","a","t","i","c","s">>,
           <<"m","a","t","h">>,
           <<"a","p","p","l","i","e","d"," ","m","a","t","h","e","m","a","t","i","c","s">>,
           <<"s","t","a","t","i","s","t","i","c","s">> >>],
     [area |-> "physics", keywords |->
        << <<"p","h","y","s","i","c","s">>,
           <<"a","p","p","l","i","e","d"," ","p","h","y","s","i","c","s">>,
           <<"t","h","e","o","r","e","t","i","c","a","l"," ","p","h","y","s","i","c","s">> >>],
     [area |-> "chemistry", keywords |->
        << <<"c","h","e","m","i","s","t","r","y">>,
           <<"c","h","e","m","i","c","a","l">>,
           <<"b","i","o","c","h","e","m","i","s","t","r","y">> >>],
     [area |-> "biology", keywords |->
        << <<"b","i","o","l","o","g","y">>,
           <<"b","i","o","l","o","g","i","c","a","l">>,
           <<"b","i","o","t","e","c","h","n","o","l","o","g","y">> >>] >>

hiring_keywords ==
  << <<"h","i","r","i","n","g">>,
     <<"p","o","s","i","t","i","o","n">>,
     <<"o","p","e","n","i","n","g">>,
     <<"a","c","c","e","p","t","i","n","g">>,
     <<"s","e","e","k","i","n","g">>,
     <<"r","e","c","r","u","i","t","i","n","g">>,
     <<"p","h","d"," ","s","t","u","d","e","n","t">>,
     <<"g","r","a","d","u","a","t","e"," ","s","t","u","d","e","n","t">>,
     <<"l","o","o","k","i","n","g"," ","f","o","r">>,
     <<"o","p","p","o","r","t","u","n","i","t","y">> >>

not_hiring_keywords ==
  << <<"n","o","t"," ","h","i","r","i","n","g">>,
     <<"n","o"," ","p","o","s","i","t","i","o","n","s">>,
     <<"c","l","o","s","e","d">>,
     <<"f","i","l","l","e","d">>,
     <<"n","o","t"," ","a","c","c","e","p","t","i","n","g">>,
     <<"n","o"," ","o","p","e","n","i","n","g","s">> >>


\* ---------------------------------------------------------------- state
VARIABLES
  pc,                     \* position of the run
  env,                    \* what the external capabilities may answer in this run
  TavilyClient,           \* the tavily import succeeded (app.py:25-29)
  cv_text,                \* user input: the CV
  university_name,        \* user input: the university
  research_areas,         \* extract_research_areas_from_cv(cv_text)
  faculty_search_queries, \* base_queries + area_specific_queries
  qi,                     \* index of the next query of the query loop
  all_search_results,     \* the aggregate hit list
  searchLog,              \* what client.search answered, per executed query
  ei,                     \* index of the next hit of the extraction loop
  extracted_content,      \* the corpus blocks
  extractLog,             \* what client.extract answered, per call
  tavily_results,         \* return value of search_professors_with_tavily
  config,                 \* sidebar: api_choice, model, and the libraries imported
  professors_result,      \* return value of search_professors_by_university_enhanced
  llm_requests,           \* the LLM requests of the run, in order
  llm_context,            \* the corpus blocks the matcher's prompt held
  llm_answer,             \* what the LLM calls of the run answered
  phd_professors,         \* st.session_state.phd_professors, NoValue when not set
  professors_before,      \* the professors the matcher returned, before enrichment
  pi,                     \* index of the next professor of enhance_professor_info
  enhanced_professors,    \* the list enhance_professor_info builds
  enrichLog,              \* per professor: whether it was searched, and the answers
  hi,                     \* index of the next professor of analyze_all_professors
  hiring_analysis,        \* the list analyze_all_professors builds
  hiringLog,              \* what the lookup of each professor answered
  hiring_queries,         \* the search_query of each lookup
  clicks,                 \* button clicks of the session so far
  prof_info,              \* user input: the professor's information
  sidebar,                \* user input: api_key, student_name, draft_sop, sop_template_latex
  timing_info,            \* what get_optimal_sending_time gave its handler
  timingLog,              \* the clock, the LLM's answer and the request of that call
  completion_params,      \* the requests get_openai_response made in the last click
  generated_email_body,   \* the email draft of the last click
  generated_sop_latex,    \* the SOP draft of the last click
  call                    \* the last call of a function by a test or demo script

matchVars == <<config, professors_result, llm_requests, llm_context, llm_answer>>
enrichVars == <<professors_before, pi, enhanced_professors, enrichLog>>
hiringVars == <<hi, hiring_analysis, hiringLog, hiring_queries>>
laterVars == <<phd_professors, enrichVars, hiringVars, clicks>>
emailVars == <<prof_info, sidebar, timing_info, timingLog, completion_params,
               generated_email_body, generated_sop_latex>>

corpusVars == <<TavilyClient, cv_text, university_name, research_areas,
                faculty_search_queries, qi, all_search_results, searchLog, ei,
                extracted_content, extractLog, tavily_results>>

\* ------------------------------------------- extract_research_areas_from_cv
RECURSIVE FoundAreas(_, _)
FoundAreas(table, cv_lower) ==
  IF table = <<>> THEN <<>>
  ELSE (IF \E k \in 1..Len(table[1].keywords) : In(table[1].keywords[k], cv_lower)
          THEN <<table[1].area>> ELSE <<>>)
       \o FoundAreas(Tail(table), cv_lower)

extract_research_areas_from_cv(text) == FoundAreas(research_keywords, Lower(text))

\* ------------------------------------------------------------ query plan
\* A query f"{university_name} <template>" is the pair of its two parts.
Query(u, template) == [university |-> u, template |-> template]

base_templates ==
  << "faculty directory computer science",
     "faculty list computer science department",
     "computer science professors",
     "faculty profiles computer science",
     "department of computer science faculty",
     "computer science faculty research",
     "CS faculty directory",
     "computer science department faculty",
     "faculty computer science research areas",
     "computer science professors research interests" >>

area_templates(area) ==
  CASE area = "artificial_intelligence" ->
         << "AI faculty machine learning",
            "artificial intelligence professors",
            "machine learning faculty" >>
    [] area = "data_science" ->
         << "data science faculty", "analytics professors", "big data faculty" >>
    [] area = "cybersecurity" ->
         << "cybersecurity faculty", "security professors",
            "information security faculty" >>
    [] area = "robotics" ->
         << "robotics faculty", "automation professors", "control systems faculty" >>
    [] OTHER -> << >>

base_queries(u) == [i \in 1..Len(base_templates) |-> Query(u, base_templates[i])]

RECURSIVE area_specific_queries(_, _)
area_specific_queries(u, areas) ==
  IF areas = <<>> THEN <<>>
  ELSE [i \in 1..Len(area_templates(areas[1])) |-> Query(u, area_templates(areas[1])[i])]
       \o area_specific_queries(u, Tail(areas))

\* A planner that puts the area-specific queries first.
QueryPlanAreasFirst(u, areas) == area_specific_queries(u, areas) \o base_queries(u)

QueryPlan(u, areas) == base_queries(u) \o area_specific_queries(u, areas)

\* --------------------------------------------------- the search capability
\* A hit is a dict of the search response.  q and rank say which query
\* returned it and at which position; its texts are tagged with them, so
\* that a block of the corpus tells which text of which hit it holds.
HitText(field, q, rank) == <<field, q, rank>>

Hit(q, rank, kind) ==
  [q |-> q, rank |-> rank, url |-> kind.url,
   content     |-> IF kind.content THEN HitText("content", q, rank) ELSE <<>>,
   raw_content |-> IF kind.raw_content THEN HitText("raw_content", q, rank) ELSE <<>>,
   snippet     |-> IF kind.snippet THEN HitText("snippet", q, rank) ELSE <<>>]

HitKind(url, c, r, s) == [url |-> url, content |-> c, raw_content |-> r, snippet |-> s]

Url1 == <<"https://cs.example.edu/faculty">>
Url2 == <<"https://cs.example.edu/people">>

AllHitKinds ==
  {HitKind(u, c, r, s) : u \in {<<>>, Url1}, c \in BOOLEAN, r \in BOOLEAN, s \in BOOLEAN}

\* The lists of n hit kinds over a set of kinds.
RECURSIVE KindLists(_, _)
KindLists(kinds, n) ==
  IF n = 0 THEN {<<>>}
  ELSE {<<k>> \o rest : k \in kinds, rest \in KindLists(kinds, n - 1)}

\* A result page of n ordinary hits: each has a url and a content snippet,
\* every second one a raw content too; two urls alternate, so that queries
\* return pages that overlap.
OrdinaryPage(n) ==
  [r \in 1..n |-> IF r % 2 = 1 THEN HitKind(Url1, TRUE, FALSE, FALSE)
                               ELSE HitKind(Url2, TRUE, TRUE, FALSE)]

Results(q, kindList) == [r \in 1..Len(kindList) |-> Hit(q, r, kindList[r])]

\* Outcome of one client.search call.
SearchRaised == [raised |-> TRUE, results |-> <<>>]
SearchReturned(results) == [raised |-> FALSE, results |-> results]

\* Outcome of one client.extract call: it raises, or returns a response
\* whose 'content' is the page text or is missing.
PageText(result) == HitText("page", result.q, result.rank)
ExtractRaised == [raised |-> TRUE, content |-> <<>>]
ExtractReturned(text) == [raised |-> FALSE, content |-> text]
\* The log entry of the call made for hit number i.
Extracted(i, out) == [hit |-> i, raised |-> out.raised, content |-> out.content]

Block(source, content) == [source |-> source, content |-> content]
Unknown == <<"Unknown">>

Error(msg) == [kind |-> "error", message |-> msg, raw |-> <<>>]
IsError(v) == v.kind = "error"

\* The extraction loop and the fallback pass read the first 5 hits.
TopK == 5

\* ------------------------------------------------ the schema (app.py:866-895)
\* A value of the parsed JSON: a string, null, or a list of strings.
JStr(s) == [type |-> "str", val |-> s]
JNull == [type |-> "null", val |-> <<>>]
JList(xs) == [type |-> "list", val |-> xs]

Professor == <<"Professor">>
ComputerScience == <<"Computer Science">>

\* dict[k] = v  /  dict.pop(k)
SetKey(d, k, v) == [x \in DOMAIN d \cup {k} |-> IF x = k THEN v ELSE d[x]]
DropKey(d, k) == [x \in DOMAIN d \ {k} |-> d[x]]
\* A default that replaces the value the dict has.
SetDefaultOverwrites(d, k, v) == SetKey(d, k, v)

\* if k not in dict: dict[k] = v
SetDefault(d, k, v) == IF k \in DOMAIN d THEN d ELSE SetKey(d, k, v)

OptionalKeys == {"email", "website", "google_scholar", "linkedin"}

\* ProfessorInfo(**p) validates: name and research_areas are required, name,
\* title and department are strings, the link fields are strings or None.
\* Keys the schema does not name are ignored.
ValidProfessorInfo(p) ==
  /\ "name" \in DOMAIN p /\ p["name"].type = "str"
  /\ "research_areas" \in DOMAIN p /\ p["research_areas"].type = "list"
  /\ \A k \in {"title", "department"} \cap DOMAIN p : p[k].type = "str"
  /\ \A k \in OptionalKeys \cap DOMAIN p : p[k].type \in {"str", "null"}

Field(p, k, default) == IF k \in DOMAIN p THEN p[k].val ELSE default

ProfessorInfo(p) ==
  [name           |-> p["name"].val,
   title          |-> Field(p, "title", Professor),
   department     |-> Field(p, "department", ComputerScience),
   research_areas |-> p["research_areas"].val,
   email          |-> Field(p, "email", <<>>),
   website        |-> Field(p, "website", <<>>),
   google_scholar |-> Field(p, "google_scholar", <<>>),
   linkedin       |-> Field(p, "linkedin", <<>>)]

\* PhDPositionResult(**data) validates: professors is required and each
\* entry is a valid ProfessorInfo; university is a string, "" by default.
ValidPhDPositionResult(data) ==
  /\ "professors" \in DOMAIN data
  /\ \A i \in 1..Len(data["professors"]) : ValidProfessorInfo(data["professors"][i])
  /\ "university" \in DOMAIN data => data["university"].type = "str"

PhDPositionResult(data) ==
  [kind |-> "result",
   university |-> Field(data, "university", <<>>),
   professors |-> [i \in 1..Len(data["professors"]) |-> ProfessorInfo(data["professors"][i])],
   hiring_analysis |-> data["hiring_analysis"]]

IsResult(v) == v.kind = "result"

\* ------------------- search_professors_by_university_enhanced (app.py:353-470)
\* A normalization without the renaming step.
RenameFullNameSkipped(p) == p

\* "full_name" in professor and "name" not in professor -> rename
RenameFullName(p) ==
  IF "full_name" \in DOMAIN p /\ "name" \notin DOMAIN p
    THEN DropKey(SetKey(p, "name", p["full_name"]), "full_name")
    ELSE p

\* app.py:416-432, one professor of the OpenAI JSON-mode response
NormalizeOpenAI(p) ==
  LET p1 == RenameFullName(p)
      p2 == SetDefault(p1, "title", JStr(Professor))
      p3 == SetDefault(p2, "department", JStr(ComputerScience))
      p4 == SetDefault(p3, "email", JNull)
      p5 == SetDefault(p4, "website", JNull)
      p6 == SetDefault(p5, "google_scholar", JNull)
  IN  SetDefault(p6, "linkedin", JNull)

\* app.py:451-459, one professor of the Gemini response
NormalizeGemini(p) ==
  LET p1 == RenameFullName(p)
      p2 == SetDefault(p1, "title", JStr(Professor))
  IN  SetDefault(p2, "department", JStr(ComputerScience))

\* for professor in data.get("professors", []): ...
NormalizeProfessors(data, api_choice) ==
  IF "professors" \in DOMAIN data
    THEN SetKey(data, "professors",
                [i \in 1..Len(data["professors"]) |->
                   IF api_choice = "OpenAI" THEN NormalizeOpenAI(data["professors"][i])
                   ELSE NormalizeGemini(data["professors"][i])])
    ELSE data

\* An LLM response text.  shape says what the text looks like: "object" is
\* exactly one JSON object; "wrapped" is a JSON object with prose or a code
\* fence around it; "garbled" has a '{' and a '}' with no JSON between them;
\* "nobrace" has no '{' or no '}'.  data is the object the JSON text denotes.
Response(shape, data) == [text |-> <<"LLM text", shape>>, shape |-> shape, data |-> data]

\* json.loads(response_text) succeeds on a JSON document only.
JsonLoads(response) == response.shape = "object"
\* response[response.find('{'):response.rfind('}') + 1]
HasBraces(response) == response.shape # "nobrace"
SliceLoads(response) == response.shape \in {"object", "wrapped"}

\* f"Error: {e}": the text of the exception, which does not hold the response
ExceptionError == Error("Error: {e}")
\* f"... Raw response: {response}"
RawError(msg, response) == [kind |-> "error", message |-> msg, raw |-> response.text]

\* app.py:374-391, the parsed object of a structured completion
AfterStructured(parsed, university) ==
  [kind |-> "result",
   university |-> IF ~Truthy(parsed.university) THEN university ELSE parsed.university,
   professors |->
     [i \in 1..Len(parsed.professors) |->
        [parsed.professors[i] EXCEPT
           !.department = IF ~Truthy(@) THEN ComputerScience ELSE @,
           !.title = IF ~Truthy(@) THEN Professor ELSE @]],
   hiring_analysis |-> IF ~Truthy(parsed.hiring_analysis) THEN <<>>
                       ELSE parsed.hiring_analysis]

\* app.py:408-437, the text of a JSON-mode completion
AfterJsonMode(response, university) ==
  IF ~JsonLoads(response) THEN ExceptionError
  ELSE LET d1 == SetDefault(response.data, "university", JStr(university))
           d2 == NormalizeProfessors(d1, "OpenAI")
           d3 == SetKey(d2, "hiring_analysis", <<>>)
       IN  IF ValidPhDPositionResult(d3) THEN PhDPositionResult(d3) ELSE ExceptionError

\* app.py:441-465, the text of the Gemini response
AfterGemini(response) ==
  IF ~HasBraces(response)
    THEN RawError("Error: No JSON found in response.", response)
  ELSE IF ~SliceLoads(response)
    THEN RawError("Error parsing JSON: {e}.", response)
  ELSE LET d2 == NormalizeProfessors(response.data, "Gemini")
           d3 == SetKey(d2, "hiring_analysis", <<>>)
       IN  IF ValidPhDPositionResult(d3) THEN PhDPositionResult(d3) ELSE ExceptionError

structured_output_models == {"gpt-4o-mini", "gpt-4o-mini-2024-07-18", "gpt-4o-2024-08-06", "gpt-4o"}

\* The whole try block (app.py:353-470): the requests made, in order, and
\* the value returned.  llm holds what each LLM call of the run answers:
\* llm.parse the structured completion (it raises, or holds a parsed
\* object), llm.create the JSON-mode completion (it raises, or holds a
\* response text), llm.gemini the text get_gemini_response returns.
Matched(requests, value) == [requests |-> requests, value |-> value]

\* A matcher that makes the JSON-mode request also after a structured
\* completion that succeeded.
MatchOutcomeBothRequests(cfg, university, llm) ==
  IF cfg.api_choice = "OpenAI" /\ cfg.OpenAI THEN
    IF cfg.model \in structured_output_models /\ ~llm.parse.raised
      THEN Matched(<<"parse", "create">>, AfterStructured(llm.parse.parsed, university))
      ELSE Matched((IF cfg.model \in structured_output_models
                      THEN <<"parse">> ELSE <<>>) \o <<"create">>,
                   IF llm.create.raised THEN ExceptionError
                   ELSE AfterJsonMode(llm.create.response, university))
  ELSE IF cfg.api_choice = "Gemini" /\ cfg.genai THEN
    Matched(<<"generate_content">>, AfterGemini(llm.gemini))
  ELSE Matched(<<>>, Error("Error: No valid API available"))

MatchOutcome(cfg, university, llm) ==
  IF cfg.api_choice = "OpenAI" /\ cfg.OpenAI THEN
    IF cfg.model \in structured_output_models /\ ~llm.parse.raised
      THEN Matched(<<"parse">>, AfterStructured(llm.parse.parsed, university))
      ELSE Matched((IF cfg.model \in structured_output_models
                      THEN <<"parse">> ELSE <<>>) \o <<"create">>,
                   IF llm.create.raised THEN ExceptionError
                   ELSE AfterJsonMode(llm.create.response, university))
  ELSE IF cfg.api_choice = "Gemini" /\ cfg.genai THEN
    Matched(<<"generate_content">>, AfterGemini(llm.gemini))
  ELSE Matched(<<>>, Error("Error: No valid API available"))

\* ------------------------------------------------------------ the inputs
CvMachineLearning ==
  <<"m","a","c","h","i","n","e"," ","l","e","a","r","n","i","n","g",","," ","c","o","m","p","u","t","e","r"," ","v","i","s","i","o","n">>
CvPhysics == <<"P","h","y","s","i","c","s">>

ExampleUniversity == <<"Example University">>
OtherUniversity == <<"Other University">>

Areas == JList(<<<<"robotics">>>>)
JaneDoe == <<"Jane Doe">>
JohnRoe == <<"John Roe">>
ScholarJane == <<"https://scholar.google.com/citations?user=jane">>
LinkedinJane == <<"https://www.linkedin.com/in/jane">>

\* Raw professor objects as an LLM writes them.
RawProfessors ==
  { \* every field supplied
    [name |-> JStr(JaneDoe), title |-> JStr(<<"Associate Professor">>),
     department |-> JStr(<<"Electrical Engineering">>), research_areas |-> Areas,
     email |-> JStr(<<"jane@example.edu">>), website |-> JNull,
     google_scholar |-> JStr(ScholarJane), linkedin |-> JStr(LinkedinJane)],
    \* only the required fields
    [name |-> JStr(JohnRoe), research_areas |-> Areas],
    \* a department and no title
    [name |-> JStr(<<"Eve Low">>), department |-> JStr(<<"Statistics">>),
     research_areas |-> Areas],
    \* the name under full_name
    [full_name |-> JStr(<<"Ada Poe">>), research_areas |-> Areas],
    \* no name at all
    [title |-> JStr(Professor), research_areas |-> Areas],
    \* a name that is null
    [name |-> JNull, research_areas |-> Areas],
    \* a second record of the same name
    [name |-> JStr(JaneDoe), full_name |-> JStr(<<"Jane A. Doe">>), research_areas |-> Areas],
    \* no research areas
    [name |-> JStr(<<"Max Moe">>), title |-> JStr(<<"Assistant Professor">>)] }

RECURSIVE SeqsUpTo(_, _)
SeqsUpTo(S, n) ==
  IF n = 0 THEN {<<>>}
  ELSE LET shorter == SeqsUpTo(S, n - 1)
       IN  shorter \cup {Append(s, x) : s \in {t \in shorter : Len(t) = n - 1}, x \in S}

\* The objects a response text may denote: a professors list, with or without
\* a university and an analysis of the LLM's own; or no professors key.
MaxProfessors == 2

RawObjects ==
  {[professors |-> ps] : ps \in SeqsUpTo(RawProfessors, MaxProfessors)}
  \cup {[professors |-> ps, university |-> JStr(OtherUniversity),
         hiring_analysis |-> <<"llm analysis">>] :
          ps \in SeqsUpTo(RawProfessors, MaxProfessors)}
  \cup {[university |-> JStr(ExampleUniversity)]}

Responses ==
  {Response(shape, d) : shape \in {"object", "wrapped"}, d \in RawObjects}
  \cup {Response("garbled", <<>>), Response("nobrace", <<>>)}

\* Typed professors as a structured completion returns them.
TypedProfessors ==
  { ProfessorInfo([name |-> JStr(JaneDoe), title |-> JStr(<<"Associate Professor">>),
                   department |-> JStr(<<"Electrical Engineering">>),
                   research_areas |-> Areas, google_scholar |-> JStr(ScholarJane),
                   linkedin |-> JStr(LinkedinJane)]),
    ProfessorInfo([name |-> JStr(JohnRoe), title |-> JStr(<<>>),
                   department |-> JStr(<<>>), research_areas |-> Areas]),
    ProfessorInfo([name |-> JStr(JaneDoe), research_areas |-> Areas,
                   linkedin |-> JStr(LinkedinJane)]) }

LlmHiringInfo(name) ==
  [professor_name |-> name, is_hiring |-> TRUE, position_type |-> <<"PhD Student">>,
   details |-> <<"from the LLM">>, sources |-> <<>>]

ParsedResults ==
  {[kind |-> "result", university |-> u, professors |-> ps, hiring_analysis |-> h] :
     u \in {<<>>, OtherUniversity}, ps \in SeqsUpTo(TypedProfessors, MaxProfessors),
     h \in {<<>>, <<LlmHiringInfo(JaneDoe)>>}}

Configs ==
  {[api_choice |-> "OpenAI", OpenAI |-> TRUE, genai |-> TRUE, model |-> "gpt-4o-mini"],
   [api_choice |-> "OpenAI", OpenAI |-> TRUE, genai |-> TRUE, model |-> "gpt-4"],
   [api_choice |-> "OpenAI", OpenAI |-> FALSE, genai |-> TRUE, model |-> ""],
   [api_choice |-> "Gemini", OpenAI |-> TRUE, genai |-> TRUE, model |-> "gemini-1.5-flash-latest"],
   [api_choice |-> "Gemini", OpenAI |-> TRUE, genai |-> FALSE, model |-> ""]}

OneProfessor == [professors |-> <<[name |-> JStr(JaneDoe), research_areas |-> Areas]>>]

OneParsed ==
  PhDPositionResult(SetKey(NormalizeProfessors(OneProfessor, "OpenAI"),
                           "hiring_analysis", <<>>))

OpenAIStructured ==
  [api_choice |-> "OpenAI", OpenAI |-> TRUE, genai |-> TRUE, model |-> "gpt-4o-mini"]

\* Urls of the hits of the profile searches.
UrlScholarJane == <<"s","c","h","o","l","a","r",".","g","o","o","g","l","e",".","c","o","m","/","j","a","n","e">>
UrlScholarRoe == <<"s","c","h","o","l","a","r",".","g","o","o","g","l","e",".","c","o","m","/","r","o","e">>
UrlLinkedinJane == <<"l","i","n","k","e","d","i","n",".","c","o","m","/","i","n","/","j","a","n","e">>
UrlLinkedinCompany == <<"l","i","n","k","e","d","i","n",".","c","o","m","/","c","o","m","p","a","n","y","/","e","u">>
UrlHomepage == <<"e","x","a","m","p","l","e",".","e","d","u","/","j","a","n","e">>

UrlHit(url) == [url |-> url]

\* What the two profile searches of one professor may answer: each raises,
\* or returns a page of at most max_results = 3 hits.
ScholarAnswers ==
  {SearchRaised, SearchReturned(<<>>),
   SearchReturned(<<UrlHit(UrlHomepage), UrlHit(UrlScholarJane), UrlHit(UrlScholarRoe)>>),
   SearchReturned(<<UrlHit(UrlScholarRoe), UrlHit(UrlScholarJane)>>)}

LinkedinAnswers ==
  {SearchRaised, SearchReturned(<<UrlHit(UrlLinkedinCompany)>>),
   SearchReturned(<<UrlHit(UrlLinkedinCompany), UrlHit(UrlLinkedinJane)>>)}

EnrichAnswers ==
  {[scholar |-> s, linkedin |-> l] : s \in ScholarAnswers, l \in LinkedinAnswers}

NoProfileFound == [scholar |-> SearchReturned(<<>>), linkedin |-> SearchReturned(<<>>)]

\* Content snippets of the hits of the hiring lookups.
TextNoLonger == <<"n","o"," ","l","o","n","g","e","r"," ","a","c","c","e","p","t","i","n","g"," ","n","e","w"," ","s","t","u","d","e","n","t","s">>
TextSeeking == <<"s","e","e","k","i","n","g"," ","P","h","D"," ","s","t","u","d","e","n","t","s">>
TextNotHiring == <<"T","h","e"," ","l","a","b"," ","i","s"," ","n","o","t"," ","h","i","r","i","n","g">>
TextPostdoc == <<"p","o","s","t","d","o","c"," ","o","p","e","n","i","n","g">>
TextGraduate == <<"g","r","a","d","u","a","t","e"," ","s","t","u","d","e","n","t"," ","w","a","n","t","e","d">>
TextFilled == <<"p","o","s","i","t","i","o","n"," ","f","i","l","l","e","d">>
TextNews == <<"l","a","b"," ","n","e","w","s">>
TextClosed == <<"a","p","p","l","i","c","a","t","i","o","n","s"," ","c","l","o","s","e","d">>

Snippets == {TextNoLonger, TextSeeking, TextNotHiring, TextPostdoc, TextGraduate,
             TextFilled, TextNews, TextClosed}

LookupRaised == [raised |-> TRUE, results |-> <<>>, extract_raised |-> FALSE]
LookupReturned(results, x) == [raised |-> FALSE, results |-> results, extract_raised |-> x]
ContentHit(url, content) == [url |-> url, content |-> content]

\* A few lookups, for the runs over several professors.
FewLookups ==
  {LookupRaised,
   LookupReturned(<<>>, FALSE),
   LookupReturned(<<ContentHit(UrlHomepage, TextSeeking)>>, FALSE),
   LookupReturned(<<ContentHit(UrlHomepage, TextGraduate),
                    ContentHit(UrlScholarJane, TextNews)>>, TRUE),
   LookupReturned(<<ContentHit(<<>>, TextNotHiring)>>, FALSE)}

\* Every lookup of up to MaxLookupHits hits over the snippets.
MaxLookupHits == 2

AllLookups ==
  {LookupRaised}
  \cup {LookupReturned(r, x) :
          r \in SeqsUpTo({ContentHit(UrlHomepage, t) : t \in Snippets}, MaxLookupHits),
          x \in BOOLEAN}

\* ----------------------------------------------------- the environments
\* What the Tavily client and the LLM may answer in a session.  failBudget:
\* queries of the query loop that may raise; hitBudget, perQuery: hits the
\* searches return in all and per query; pages: the result pages ("ordinary"
\* or "any"); answering: the queries that return hits; extractFaults: extract
\* calls that may fail; parsed, responses: what the LLM may answer; enrich:
\* what the two profile searches of a professor may answer; hiring: what a
\* hiring lookup may answer; clicks: button clicks of the session.
Env(failBudget, hitBudget, perQuery, pages, answering, faults, parsed, responses, enrich, hiring, n) ==
  [failBudget |-> failBudget, hitBudget |-> hitBudget, perQuery |-> perQuery,
   pages |-> pages, answering |-> answering, extractFaults |-> faults,
   parsed |-> parsed, responses |-> responses, enrich |-> enrich,
   hiring |-> hiring, clicks |-> n]

\* The result pages of n hits.
Pages(pages, n) ==
  IF pages = "any" THEN KindLists(AllHitKinds, n) ELSE {OrdinaryPage(n)}

\* What a structured completion may return.
ParsedAnswers(parsed) ==
  CASE parsed = "any"   -> ParsedResults
    [] parsed = "plain" -> {p \in ParsedResults : p.university = <<>> /\ p.hiring_analysis = <<>>}
    [] OTHER            -> {OneParsed}

\* The texts a JSON-mode completion or Gemini may return.
ResponseAnswers(responses) ==
  CASE responses = "any"  -> Responses
    [] responses = "none" -> {Response("nobrace", <<>>)}
    [] OTHER              -> {Response("object", OneProfessor)}

\* What the two profile searches of a professor may answer.
ProfileAnswers(enrich) == IF enrich = "any" THEN EnrichAnswers ELSE {NoProfileFound}

\* What a hiring lookup may answer.
LookupAnswers(hiring) == IF hiring = "any" THEN AllLookups ELSE FewLookups

\* The query-loop runs: any query may raise (MaxFail of them), the first two
\* base queries and the first area-specific one return ordinary pages, every
\* extract call returns the page text, and the LLM answers with one professor.
SearchEnv ==
  Env(MaxFail, MaxHits, MaxResults, "ordinary", {1, 2, Len(base_templates) + 1}, 0,
      "one", "one", "none", "few", 1)

\* The extraction runs: no query raises, the last base query returns a page
\* of hits of any kind, and every extract call may fail.
ExtractEnv ==
  Env(0, MaxExtractHits, MaxExtractHits, "any", {Len(base_templates)}, TopK,
      "one", "one", "none", "few", 1)

\* The matcher runs: the last base query returns one ordinary hit or none,
\* and the LLM answers anything.
MatchEnv ==
  Env(0, 1, 1, "ordinary", {Len(base_templates)}, 0, "any", "any", "none", "few", 1)

\* The runs after the matcher: the last base query returns one ordinary hit
\* or none, and the structured completion returns any typed list, or fails
\* and the JSON-mode completion with it.
AfterMatchEnv(enrich, hiring, n) ==
  Env(0, 1, 1, "ordinary", {Len(base_templates)}, 0, "plain", "none", enrich, hiring, n)

\* The enrichment runs: the profile searches answer anything.
EnrichEnv == AfterMatchEnv("any", "few", 1)

\* The analysis runs over several professors.
AnalyzeEnv == AfterMatchEnv("none", "few", 2)

\* The classification runs: one stored professor list, any lookup.
ClassifyEnv ==
  Env(0, 1, 1, "ordinary", {Len(base_templates)}, 0, "one", "none", "none", "any", 2)


\* ------------------------------------------------------------- CV texts
\* Phrases of a CV, in the letter case a CV may write them: Robotics, AI, ML,
\* Machine Learning, data science, Cybersecurity, physics, art history, CS,
\* big data.
CvPhrases ==
  { <<"R","o","b","o","t","i","c","s">>,
    <<"A","I">>,
    <<"M","L">>,
    <<"M","a","c","h","i","n","e"," ","L","e","a","r","n","i","n","g">>,
    <<"d","a","t","a"," ","s","c","i","e","n","c","e">>,
    <<"C","y","b","e","r","s","e","c","u","r","i","t","y">>,
    <<"p","h","y","s","i","c","s">>,
    <<"a","r","t"," ","h","i","s","t","o","r","y">>,
    <<"C","S">>,
    <<"b","i","g"," ","d","a","t","a">> }

\* CV texts of up to MaxCvPhrases phrases, joined by ", "; the handler runs
\* only with a CV that is not empty.
MaxCvPhrases == 2

CvTexts == {Join(ps, <<",", " ">>) : ps \in SeqsUpTo(CvPhrases, MaxCvPhrases)} \ {<<>>}

Universities == {ExampleUniversity, OtherUniversity}

\* The planning runs: the first query returns one ordinary hit or none, and
\* the LLM answers with one professor or fails.
PlanEnv == Env(0, 1, 1, "ordinary", {1}, 0, "one", "none", "none", "few", 1)
NoValue == [kind |-> "none"]

Corpus(results, blocks, urls) ==
  [kind |-> "corpus", search_results |-> results, extracted_content |-> blocks,
   source_urls |-> urls]

\* ------------------------------------------- search_professors_with_tavily
\* Number of hits the log's queries returned, and of queries that raised.
ReturnedHits(log) == Len(Flatten([i \in 1..Len(log) |-> log[i].results]))
RaisedQueries(log) == {i \in 1..Len(log) : log[i].raised}

\* What client.search may answer to query number q in this run.
SearchOutcomes(q, log) ==
  (IF Cardinality(RaisedQueries(log)) < env.failBudget THEN {SearchRaised} ELSE {})
  \cup
  {SearchReturned(Results(q, kl)) :
     kl \in UNION {Pages(env.pages, n) :
                     n \in 0..(IF q \in env.answering
                                 THEN Min(env.perQuery, env.hitBudget - ReturnedHits(log))
                                 ELSE 0)}}

\* One pass of the query loop body (app.py:167-185): the hits of a response
\* are appended; a raising call is caught and adds nothing.
AfterSearch(all, out) ==
  IF out.raised THEN all
  ELSE IF Truthy(out.results) THEN all \o out.results ELSE all

\* A loop that an exception ends.
NextQueryAbortsOnError(q, n, out) == IF out.raised THEN n + 1 ELSE q + 1

\* The loop goes on with the next query, also after an exception (continue).
NextQuery(q, n, out) == q + 1

\* A selection without the cap.
TopHitsUncapped(all) == all

\* all_search_results[:5]
TopHits(all) == SubSeq(all, 1, Min(TopK, Len(all)))

\* What client.extract may answer for a hit in this run.
ExtractOutcomes(result, log) ==
  {ExtractReturned(PageText(result))}
  \cup (IF Cardinality({i \in 1..Len(log) : log[i].raised \/ ~Truthy(log[i].content)})
            < env.extractFaults
          THEN {ExtractRaised, ExtractReturned(<<>>)} ELSE {})

\* A fallback that prefers the raw content to the content snippet.
RawOrSnippet(result) ==
  IF Truthy(result.raw_content) THEN <<Block(result.url, result.raw_content)>>
  ELSE IF Truthy(result.content) THEN <<Block(result.url, result.content)>>
  ELSE <<>>

\* The snippet fallback of a hit (app.py:206-209 and 213-216).
SnippetOrRaw(result) ==
  IF Truthy(result.content) THEN <<Block(result.url, result.content)>>
  ELSE IF Truthy(result.raw_content) THEN <<Block(result.url, result.raw_content)>>
  ELSE <<>>

\* The blocks one hit with a url adds, given what extract answered
\* (app.py:194-217).
ExtractBlocks(result, out) ==
  IF out.raised THEN SnippetOrRaw(result)
  ELSE IF Truthy(out.content) THEN <<Block(result.url, out.content)>>
  ELSE SnippetOrRaw(result)

\* The second pass, run when the first one added no block (app.py:221-226).
RECURSIVE FallbackContent(_)
FallbackContent(hits) ==
  IF hits = <<>> THEN <<>>
  ELSE (LET result == hits[1]
            source == IF Truthy(result.url) THEN result.url ELSE Unknown
        IN  IF Truthy(result.content) THEN <<Block(source, result.content)>>
            ELSE IF Truthy(result.snippet) THEN <<Block(source, result.snippet)>>
            ELSE <<>>)
       \o FallbackContent(Tail(hits))

\* [result.get('url', '') for result in all_search_results if result.get('url')]
RECURSIVE SourceUrls(_)
SourceUrls(hits) ==
  IF hits = <<>> THEN <<>>
  ELSE (IF Truthy(hits[1].url) THEN <<hits[1].url>> ELSE <<>>) \o SourceUrls(Tail(hits))

\* app.py:1561-1573: Find Professors is clicked, with a CV and a university
\* entered (and both API keys); the run starts with fresh locals
ClickFind ==
  /\ pc = "idle"
  /\ clicks < env.clicks
  /\ Truthy(cv_text) /\ Truthy(university_name)
  /\ clicks' = clicks + 1
  /\ pc' = "tavily"
  /\ research_areas' = <<>>
  /\ faculty_search_queries' = <<>>
  /\ qi' = 1
  /\ all_search_results' = <<>>
  /\ searchLog' = <<>>
  /\ ei' = 1
  /\ extracted_content' = <<>>
  /\ extractLog' = <<>>
  /\ tavily_results' = NoValue
  /\ professors_result' = NoValue
  /\ llm_requests' = <<>>
  /\ llm_context' = <<>>
  /\ llm_answer' = NoValue
  /\ UNCHANGED <<call, emailVars, env, config, TavilyClient, cv_text, university_name, phd_professors,
                 enrichVars, hiringVars>>

\* app.py:110-162
TavilyStart ==
  /\ pc = "tavily"
  /\ IF ~TavilyClient
       THEN /\ tavily_results' = Error("Error: Tavily library not available")
            /\ pc' = "tavily_returned"
            /\ UNCHANGED <<research_areas, faculty_search_queries>>
       ELSE /\ research_areas' = extract_research_areas_from_cv(cv_text)
            /\ faculty_search_queries' =
                 QueryPlan(university_name, extract_research_areas_from_cv(cv_text))
            /\ pc' = "search"
            /\ UNCHANGED tavily_results
  /\ UNCHANGED <<call, emailVars, env, matchVars, laterVars, TavilyClient, cv_text, university_name, qi, all_search_results,
                 searchLog, ei, extracted_content, extractLog>>

\* app.py:166-185, one query
QueryStep ==
  /\ pc = "search"
  /\ qi <= Len(faculty_search_queries)
  /\ \E out \in SearchOutcomes(qi, searchLog) :
       /\ all_search_results' = AfterSearch(all_search_results, out)
       /\ searchLog' = Append(searchLog, out)
       /\ qi' = NextQuery(qi, Len(faculty_search_queries), out)
  /\ UNCHANGED <<call, emailVars, pc, env, matchVars, laterVars, TavilyClient, cv_text, university_name, research_areas,
                 faculty_search_queries, ei, extracted_content, extractLog,
                 tavily_results>>

\* app.py:187-191, after the last query
SearchDone ==
  /\ pc = "search"
  /\ qi > Len(faculty_search_queries)
  /\ IF ~Truthy(all_search_results)
       THEN /\ tavily_results' =
                 Error("Error: No faculty information found via Tavily search")
            /\ pc' = "tavily_returned"
       ELSE /\ pc' = "extract"
            /\ UNCHANGED tavily_results
  /\ UNCHANGED <<call, emailVars, env, matchVars, laterVars, TavilyClient, cv_text, university_name, research_areas,
                 faculty_search_queries, qi, all_search_results, searchLog, ei,
                 extracted_content, extractLog>>

\* app.py:193-217, one hit of all_search_results[:5]
ExtractStep ==
  /\ pc = "extract"
  /\ ei <= Len(TopHits(all_search_results))
  /\ LET result == all_search_results[ei] IN
       IF Truthy(result.url)
         THEN \E out \in ExtractOutcomes(result, extractLog) :
                /\ extracted_content' = extracted_content \o ExtractBlocks(result, out)
                /\ extractLog' = Append(extractLog, Extracted(ei, out))
         ELSE UNCHANGED <<extracted_content, extractLog>>
  /\ ei' = ei + 1
  /\ UNCHANGED <<call, emailVars, pc, env, matchVars, laterVars, TavilyClient, cv_text, university_name, research_areas,
                 faculty_search_queries, qi, all_search_results, searchLog,
                 tavily_results>>

\* The blocks the function returns: those of the extraction loop, or those
\* of the second pass when the loop added none (app.py:219-231).
FinalBlocks(blocks, all) ==
  IF Truthy(blocks) THEN blocks ELSE FallbackContent(TopHits(all))

\* app.py:219-240, after the last hit
ExtractDone ==
  /\ pc = "extract"
  /\ ei > Len(TopHits(all_search_results))
  /\ LET blocks == FinalBlocks(extracted_content, all_search_results) IN
       /\ extracted_content' = blocks
       /\ tavily_results' =
            IF ~Truthy(blocks)
              THEN Error("Error: Could not extract content from search results")
              ELSE Corpus(all_search_results, blocks, SourceUrls(all_search_results))
  /\ pc' = "tavily_returned"
  /\ UNCHANGED <<call, emailVars, env, matchVars, laterVars, TavilyClient, cv_text, university_name, research_areas,
                 faculty_search_queries, qi, all_search_results, searchLog, ei,
                 extractLog>>

\* search_professors_by_university (app.py:935-1052), the LLM-only search:
\* its try block is the same text as the one of the enhanced search.
search_professors_by_university(cfg, university, llm) ==
  IF cfg.api_choice = "OpenAI" /\ cfg.OpenAI THEN
    IF cfg.model \in structured_output_models /\ ~llm.parse.raised
      THEN Matched(<<"parse">>, AfterStructured(llm.parse.parsed, university))
      ELSE Matched((IF cfg.model \in structured_output_models
                      THEN <<"parse">> ELSE <<>>) \o <<"create">>,
                   IF llm.create.raised THEN ExceptionError
                   ELSE AfterJsonMode(llm.create.response, university))
  ELSE IF cfg.api_choice = "Gemini" /\ cfg.genai THEN
    Matched(<<"generate_content">>, AfterGemini(llm.gemini))
  ELSE Matched(<<>>, Error("Error: No valid API available"))

\* What the LLM calls of one matcher run may answer.
ParseRaised == [raised |-> TRUE, parsed |-> NoValue]
ParseReturned(parsed) == [raised |-> FALSE, parsed |-> parsed]
CreateRaised == [raised |-> TRUE, response |-> NoValue]
CreateReturned(response) == [raised |-> FALSE, response |-> response]

LlmAnswers ==
  {[parse |-> ParseReturned(p), create |-> CreateRaised, gemini |-> r] :
     p \in ParsedAnswers(env.parsed), r \in {Response("nobrace", <<>>)}}
  \cup
  {[parse |-> ParseRaised, create |-> c, gemini |-> r] :
     c \in {CreateRaised}, r \in ResponseAnswers(env.responses)}
  \cup
  {[parse |-> ParseRaised, create |-> CreateReturned(r), gemini |-> r] :
     r \in ResponseAnswers(env.responses)}

\* app.py:288-470: tavily returned a corpus, the LLM matches against it.
EnhancedMatch ==
  /\ pc = "tavily_returned"
  /\ ~IsError(tavily_results)
  /\ \E llm \in LlmAnswers :
       LET out == MatchOutcome(config, university_name, llm) IN
         /\ professors_result' = out.value
         /\ llm_requests' = out.requests
         /\ llm_context' = tavily_results.extracted_content
         /\ llm_answer' = llm
  /\ pc' = "find_returned"
  /\ UNCHANGED <<call, emailVars, env, config, corpusVars, laterVars>>

\* app.py:282-286: tavily returned an error string, the LLM-only search runs.
FallbackSearch ==
  /\ pc = "tavily_returned"
  /\ IsError(tavily_results)
  /\ \E llm \in LlmAnswers :
       LET out == search_professors_by_university(config, university_name, llm) IN
         /\ professors_result' = out.value
         /\ llm_requests' = out.requests
         /\ llm_context' = <<>>
         /\ llm_answer' = llm
  /\ pc' = "find_returned"
  /\ UNCHANGED <<call, emailVars, env, config, corpusVars, laterVars>>

\* ------------------------------------------------------------ enrichment
ScholarPattern == <<"s","c","h","o","l","a","r",".","g","o","o","g","l","e",".","c","o","m">>
LinkedinPattern == <<"l","i","n","k","e","d","i","n",".","c","o","m","/","i","n","/">>

\* A search that takes the url of the first result whatever it is.
FirstUrlUnmatched(results, pattern) ==
  IF results = <<>> THEN <<>> ELSE results[1].url

\* The url of the first result whose url holds the pattern; <<>> when no
\* result does (the key is then never set).  app.py:1186-1190, 1203-1207
RECURSIVE FirstUrlWith(_, _)
FirstUrlWith(results, pattern) ==
  IF results = <<>> THEN <<>>
  ELSE IF In(pattern, results[1].url) THEN results[1].url
  ELSE FirstUrlWith(Tail(results), pattern)

\* search_additional_professor_info (app.py:1166-1215).  out.scholar and
\* out.linkedin are what the two client.search calls answer; a raising
\* call is caught by its own try and leaves its key unset.
search_additional_professor_info(available, out) ==
  IF ~available THEN [google_scholar |-> <<>>, linkedin |-> <<>>]
  ELSE [google_scholar |-> IF out.scholar.raised THEN <<>>
                           ELSE FirstUrlWith(out.scholar.results, ScholarPattern),
        linkedin       |-> IF out.linkedin.raised THEN <<>>
                           ELSE FirstUrlWith(out.linkedin.results, LinkedinPattern)]

\* not professor.google_scholar or not professor.linkedin (app.py:258)
NeedsSearch(professor) ==
  ~Truthy(professor.google_scholar) \/ ~Truthy(professor.linkedin)

\* An update that does not test whether the professor has the link already.
EnhanceProfessorOverwrites(professor, additional_info) ==
  [professor EXCEPT
     !.google_scholar = IF Truthy(additional_info.google_scholar)
                          THEN additional_info.google_scholar ELSE @,
     !.linkedin = IF Truthy(additional_info.linkedin)
                    THEN additional_info.linkedin ELSE @]

\* An update that stores the LinkedIn url as the professor's website.
EnhanceProfessorSetsWebsite(professor, additional_info) ==
  [professor EXCEPT
     !.google_scholar = IF Truthy(additional_info.google_scholar) /\ ~Truthy(@)
                          THEN additional_info.google_scholar ELSE @,
     !.website = IF Truthy(additional_info.linkedin) /\ ~Truthy(professor.linkedin)
                   THEN additional_info.linkedin ELSE @]

\* app.py:261-265
EnhanceProfessor(professor, additional_info) ==
  [professor EXCEPT
     !.google_scholar = IF Truthy(additional_info.google_scholar) /\ ~Truthy(@)
                          THEN additional_info.google_scholar ELSE @,
     !.linkedin = IF Truthy(additional_info.linkedin) /\ ~Truthy(@)
                    THEN additional_info.linkedin ELSE @]

\* A loop that a raising search ends.
NextProfessorAbortsOnError(i, n, out) ==
  IF out.searched /\ (out.scholar.raised \/ out.linkedin.raised) THEN n + 1 ELSE i + 1

\* The loop of enhance_professor_info goes on with the next professor
\* whatever the searches answered: no exception leaves
\* search_additional_professor_info.
NextProfessor(i, n, out) == i + 1

NotSearched == [searched |-> FALSE, scholar |-> SearchRaised, linkedin |-> SearchRaised]
Searched(out) == [searched |-> TRUE, scholar |-> out.scholar, linkedin |-> out.linkedin]

\* app.py:1582-1583: the search returned an error string
FindFailed ==
  /\ pc = "find_returned"
  /\ IsError(professors_result)
  /\ pc' = "idle"
  /\ UNCHANGED <<call, emailVars, env, corpusVars, matchVars, phd_professors, enrichVars, hiringVars, clicks>>

\* A handler that stores the result before its professors are enriched.
EnhanceStartStoresFirst ==
  /\ pc = "find_returned"
  /\ IsResult(professors_result)
  /\ professors_before' = professors_result.professors
  /\ phd_professors' = professors_result
  /\ pc' = IF ~Truthy(professors_result.professors) THEN "idle" ELSE "enhance"
  /\ pi' = 1
  /\ enhanced_professors' = <<>>
  /\ enrichLog' = <<>>
  /\ UNCHANGED <<call, emailVars, env, corpusVars, matchVars, hiringVars, clicks>>

\* app.py:1575-1581 with 249-252: the search returned a result; an empty
\* professor list is returned as it is and stored
EnhanceStart ==
  /\ pc = "find_returned"
  /\ IsResult(professors_result)
  /\ professors_before' = professors_result.professors
  /\ IF ~Truthy(professors_result.professors)
       THEN /\ phd_professors' = professors_result
            /\ pc' = "idle"
       ELSE /\ pc' = "enhance"
            /\ UNCHANGED phd_professors
  /\ pi' = 1
  /\ enhanced_professors' = <<>>
  /\ enrichLog' = <<>>
  /\ UNCHANGED <<call, emailVars, env, corpusVars, matchVars, hiringVars, clicks>>

\* app.py:254-267, one professor; the record is changed in place
EnhanceStep ==
  /\ pc = "enhance"
  /\ pi <= Len(professors_result.professors)
  /\ LET professor == professors_result.professors[pi] IN
       \E out \in (IF NeedsSearch(professor) THEN {Searched(o) : o \in ProfileAnswers(env.enrich)}
                   ELSE {NotSearched}) :
         LET enhanced_professor ==
               IF out.searched
                 THEN EnhanceProfessor(professor,
                        search_additional_professor_info(TavilyClient, out))
                 ELSE professor
         IN  /\ professors_result' =
                  [professors_result EXCEPT !.professors[pi] = enhanced_professor]
             /\ enhanced_professors' = Append(enhanced_professors, enhanced_professor)
             /\ enrichLog' = Append(enrichLog, out)
             /\ pi' = NextProfessor(pi, Len(professors_result.professors), out)
  /\ UNCHANGED <<call, emailVars, pc, env, corpusVars, config, llm_requests, llm_context, llm_answer,
                 phd_professors, professors_before, hiringVars, clicks>>

\* app.py:269 and 1578-1581: the list is returned, assigned and stored
EnhanceDone ==
  /\ pc = "enhance"
  /\ pi > Len(professors_result.professors)
  /\ professors_result' = [professors_result EXCEPT !.professors = enhanced_professors]
  /\ phd_professors' = [professors_result EXCEPT !.professors = enhanced_professors]
  /\ pc' = "idle"
  /\ UNCHANGED <<call, emailVars, env, corpusVars, config, llm_requests, llm_context, llm_answer,
                 enrichVars, hiringVars, clicks>>

\* ------------------------------------------------------- hiring analysis
Phd == <<"p","h","d">>
Graduate == <<"g","r","a","d","u","a","t","e">>
Postdoc == <<"p","o","s","t","d","o","c">>
Space == <<" ">>

\* Index of the first keyword of the list that occurs in the text, 0 if none
\* (the for ... if keyword in content_lower ... break loops).
RECURSIVE FirstKeyword(_, _, _)
FirstKeyword(keywords, text, i) ==
  IF i > Len(keywords) THEN 0
  ELSE IF In(keywords[i], text) THEN i
  ELSE FirstKeyword(keywords, text, i + 1)

\* app.py:1104-1115: the hiring keywords, and the position type read off
\* the keyword that matched
HiringIndicator(content_lower) ==
  LET k == FirstKeyword(hiring_keywords, content_lower, 1) IN
    IF k = 0 THEN [is_hiring |-> FALSE, position_type |-> <<>>]
    ELSE [is_hiring |-> TRUE,
          position_type |->
            IF In(Phd, hiring_keywords[k]) \/ In(Graduate, hiring_keywords[k])
              THEN <<"PhD Student">>
            ELSE IF In(Postdoc, hiring_keywords[k]) THEN <<"Postdoc">>
            ELSE <<>>]

\* app.py:1117-1121: a not-hiring keyword resets is_hiring
NotHiringOverride(is_hiring, content_lower) ==
  IF FirstKeyword(not_hiring_keywords, content_lower, 1) # 0 THEN FALSE ELSE is_hiring

\* app.py:1097-1121
Classify(content_text) ==
  LET content_lower == Lower(content_text)
      found == HiringIndicator(content_lower)
  IN  [is_hiring |-> NotHiringOverride(found.is_hiring, content_lower),
       position_type |-> found.position_type]

HiringInfo(name, is_hiring, position_type, details, sources) ==
  [kind |-> "HiringInfo", professor_name |-> name, is_hiring |-> is_hiring,
   position_type |-> position_type, details |-> details, sources |-> sources]

ErrorString(text) == [kind |-> "str", text |-> text]

\* ' '.join([result.get('content', '') for result in response.get('results', [])])
ContentText(results) == Join([i \in 1..Len(results) |-> results[i].content], Space)

\* app.py:1065: f"{professor_name} {university_name} hiring PhD students
\* position opening"
HiringQuery(professor_name, university) ==
  [professor_name |-> professor_name, university |-> university,
   template |-> <<"hiring PhD students position opening">>]

\* search_hiring_info (app.py:1054-1136).  out is what the lookup's calls
\* answer: out.raised says that client.search raised, out.results are the
\* hits of its response, out.extract_raised that client.extract raised
\* (caught at once: the text it would have returned is not read again).
search_hiring_info(professor_name, available, out) ==
  IF ~available THEN ErrorString(<<"Error: Tavily not available">>)
  ELSE IF out.raised
    THEN ErrorString(<<"Error searching for ">> \o professor_name \o <<": {e}">>)
  ELSE LET content_text == ContentText(out.results)
           class == Classify(content_text)
       IN  HiringInfo(professor_name, class.is_hiring, class.position_type,
                      <<"Based on search results: ">>
                        \o SubSeq(content_text, 1, Min(500, Len(content_text)))
                        \o <<"...">>,
                      IF Truthy(out.results) THEN <<out.results[1].url>> ELSE <<>>)

\* A default entry that takes its fields from a hiring professor's entry.
HiringEntryDefaultsToHiring(professor, hiring_info) ==
  IF hiring_info.kind = "HiringInfo" THEN hiring_info
  ELSE HiringInfo(professor.name, TRUE, <<>>, <<"Error: ">> \o hiring_info.text, <<>>)

\* app.py:1151-1162: a lookup that did not return a HiringInfo becomes a
\* default entry
HiringEntry(professor, hiring_info) ==
  IF hiring_info.kind = "HiringInfo" THEN hiring_info
  ELSE HiringInfo(professor.name, FALSE, <<>>, <<"Error: ">> \o hiring_info.text, <<>>)

\* app.py:1586-1592: the button is enabled once a result is stored
ClickAnalyze ==
  /\ pc = "idle"
  /\ clicks < env.clicks
  /\ phd_professors.kind = "result"
  /\ clicks' = clicks + 1
  /\ pc' = "analyze"
  /\ hi' = 1
  /\ hiring_analysis' = <<>>
  /\ hiringLog' = <<>>
  /\ hiring_queries' = <<>>
  /\ UNCHANGED <<call, emailVars, env, corpusVars, matchVars, phd_professors, enrichVars>>

\* app.py:1147-1162, one professor
AnalyzeStep ==
  /\ pc = "analyze"
  /\ hi <= Len(phd_professors.professors)
  /\ \E out \in LookupAnswers(env.hiring) :
       LET professor == phd_professors.professors[hi]
           hiring_info == search_hiring_info(professor.name, TavilyClient, out)
       IN  /\ hiring_analysis' = Append(hiring_analysis, HiringEntry(professor, hiring_info))
           /\ hiringLog' = Append(hiringLog, out)
           /\ hiring_queries' =
                IF TavilyClient
                  THEN Append(hiring_queries, HiringQuery(professor.name, university_name))
                  ELSE hiring_queries
  /\ hi' = hi + 1
  /\ UNCHANGED <<call, emailVars, pc, env, corpusVars, matchVars, phd_professors, enrichVars, clicks>>

\* app.py:1164 and 1600-1602: the list is returned and stored
AnalyzeDone ==
  /\ pc = "analyze"
  /\ hi > Len(phd_professors.professors)
  /\ phd_professors' = [phd_professors EXCEPT !.hiring_analysis = hiring_analysis]
  /\ pc' = "idle"
  /\ UNCHANGED <<call, emailVars, env, corpusVars, matchVars, enrichVars, hiringVars, clicks>>

\* app.py:1486: the text input of the university is edited between two
\* clicks
EditUniversity ==
  /\ pc = "idle"
  /\ \E u \in Universities : u # university_name /\ university_name' = u
  /\ UNCHANGED <<call, emailVars, pc, env, TavilyClient, cv_text, research_areas,
                 faculty_search_queries, qi, all_search_results, searchLog, ei,
                 extracted_content, extractLog, tavily_results, matchVars, laterVars>>

\* ---------------------------------------------------- the Email Draft tab
\* A text the LLM wrote or the program built.  padded says that it has
\* white space around it; body says what the text holds.
Text(padded, body) == [kind |-> "str", padded |-> padded, body |-> body]

\* str.strip()
Strip(text) == [text EXCEPT !.padded = FALSE]

ErrorText(message) == Text(FALSE, [what |-> "error", message |-> message])

\* The exception of a call left the function.
Raised == [kind |-> "raised"]

\* str.startswith(prefix)
StartsWith(s, prefix) ==
  Len(s) >= Len(prefix) /\ SubSeq(s, 1, Len(prefix)) = prefix

\* A detection that compares the name as it is written.
is_gpt5_model_as_written(model_name) ==
  /\ Truthy(model_name)
  /\ \/ StartsWith(model_name, <<"g","p","t","-","5">>)
     \/ StartsWith(model_name, <<"g","p","t","5">>)

\* demo_gpt5_functionality.py:12-16: model_name.lower().startswith(('gpt-5', 'gpt5'))
is_gpt5_model(model_name) ==
  /\ Truthy(model_name)
  /\ \/ StartsWith(Lower(model_name), <<"g","p","t","-","5">>)
     \/ StartsWith(Lower(model_name), <<"g","p","t","5">>)

\* The keyword arguments of client.chat.completions.create (app.py:48-55,
\* 814-821)
CompletionParams(model, system, user) ==
  [model |-> model,
   messages |-> <<[role |-> "system", content |-> system],
                  [role |-> "user", content |-> user]>>,
   temperature |-> "0.01"]

Called(requests, value) == [requests |-> requests, value |-> value]

\* get_openai_response (app.py:42-59); answer is what the completion call does
get_openai_response(cfg, prompt_text, answer) ==
  IF ~cfg.OpenAI THEN Called(<<>>, Text(FALSE, [what |-> "OpenAI library error."]))
  ELSE Called(<<CompletionParams(cfg.model, <<"You are a helpful assistant.">>, prompt_text)>>,
              IF answer = Raised THEN ErrorText(<<"Error: {e}">>) ELSE answer)

\* get_gemini_response (app.py:61-72)
get_gemini_response(cfg, prompt_text, answer) ==
  IF ~cfg.genai THEN Called(<<>>, Text(FALSE, [what |-> "Google Generative AI library error."]))
  ELSE Called(<<>>, IF answer = Raised THEN ErrorText(<<"Error: {e}">>) ELSE answer)

\* The prompt of get_optimal_sending_time (app.py:781-807) holds the
\* professor's information (info), the current time in Asia/Dhaka and its weekday.
SendingTimePrompt(info, bd_current_time) ==
  <<"time zone analysis", info, bd_current_time, bd_current_time.day>>

\* get_optimal_sending_time (app.py:775-828): the function's last statement
\* is the elif, so it returns None when neither provider is available; the
\* LLM calls are not inside a try.
get_optimal_sending_time(info, cfg, bd_current_time, answer) ==
  IF ~Truthy(info)
    THEN Called(<<>>, ErrorText(<<"Error: No professor information provided.">>))
  ELSE IF cfg.api_choice = "OpenAI" /\ cfg.OpenAI
    THEN Called(<<CompletionParams(cfg.model,
                                   SendingTimePrompt(info, bd_current_time), <<>>)>>,
                IF answer = Raised THEN Raised ELSE Strip(answer))
  ELSE IF cfg.api_choice = "Gemini" /\ cfg.genai
    THEN Called(<<>>, IF answer = Raised THEN Raised ELSE Strip(answer))
  ELSE Called(<<>>, NoValue)

\* ------------------------------------------------------------ the inputs
Days == {"Monday", "Tuesday", "Wednesday", "Thursday", "Friday", "Saturday", "Sunday"}

\* datetime.now(my_local_tz): the last minute of a Friday, the first of a
\* Saturday, and a working hour
Clock ==
  {[day |-> "Friday", hour |-> 23, minute |-> 59],
   [day |-> "Saturday", hour |-> 0, minute |-> 1],
   [day |-> "Monday", hour |-> 10, minute |-> 0]}

\* What the LLM may answer to the sending-time prompt: the dictionary asked
\* for, with the optimal time on any day of the professor's week; a text
\* without one; or the call raises.
SendingTimeAnswers ==
  {Text(padded, [what |-> "recommendation", optimal_time_prof |-> [day |-> d, time |-> "9:00 AM"],
                 prof_timezone |-> "America/New_York"]) : padded \in BOOLEAN, d \in Days}
  \cup {Text(FALSE, [what |-> "prose"]), Raised}

\* What the LLM may answer to a drafting prompt.
DraftAnswers == {Text(FALSE, [what |-> "draft"]), Raised}

EmailConfigs ==
  {[api_choice |-> "OpenAI", OpenAI |-> TRUE, genai |-> TRUE, model |-> m] :
     m \in { <<"g","p","t","-","4","o","-","m","i","n","i">>, <<"g","p","t","-","4","o">>,
             <<"g","p","t","-","5">>, <<"g","p","t","-","5","-","m","i","n","i">>,
             <<"g","p","t","-","5","-","n","a","n","o">> }}
  \cup
  {[api_choice |-> "OpenAI", OpenAI |-> FALSE, genai |-> TRUE, model |-> <<>>],
   [api_choice |-> "Gemini", OpenAI |-> TRUE, genai |-> TRUE,
    model |-> <<"g","e","m","i","n","i","-","p","r","o">>],
   [api_choice |-> "Gemini", OpenAI |-> TRUE, genai |-> FALSE, model |-> <<>>]}

\* The texts entered in the sidebar and the tab.
Sidebars ==
  [api_key : {<<>>, <<"sk-key">>}, student_name : {<<"Koshik Debanath">>},
   draft_sop : BOOLEAN, sop_template_latex : {<<>>, <<"\\documentclass{article}">>}]

ProfInfos == {<<>>, <<"Prof. X leads the Y lab at MIT">>}

\* ------------------------------------------------------------ the handlers
\* app.py:1366-1375: the button is shown when prof_info is not empty
ClickSendingTime ==
  /\ pc = "idle"
  /\ clicks < env.clicks
  /\ Truthy(prof_info)
  /\ clicks' = clicks + 1
  /\ \E bd_current_time \in Clock, answer \in SendingTimeAnswers :
       LET out == get_optimal_sending_time(prof_info, config, bd_current_time, answer) IN
         /\ timing_info' = out.value
         /\ timingLog' = [bd_current_time |-> bd_current_time, answer |-> answer,
                          requests |-> out.requests]
  /\ UNCHANGED <<call, pc, env, corpusVars, matchVars, phd_professors, enrichVars, hiringVars,
                 prof_info, sidebar, completion_params, generated_email_body,
                 generated_sop_latex>>

\* The LLM call of a draft (app.py:1397-1402, 1421-1426)
Draft(cfg, prompt_text, answer) ==
  IF cfg.api_choice = "OpenAI" /\ cfg.OpenAI THEN get_openai_response(cfg, prompt_text, answer)
  ELSE IF cfg.api_choice = "Gemini" /\ cfg.genai THEN get_gemini_response(cfg, prompt_text, answer)
  ELSE Called(<<>>, <<>>)

\* The validations of the Generate Email Draft button pass (app.py:1379-1390)
Validated ==
  /\ Truthy(sidebar.api_key) /\ Truthy(sidebar.student_name)
  /\ Truthy(cv_text) /\ Truthy(prof_info)
  /\ ~(sidebar.draft_sop /\ ~Truthy(sidebar.sop_template_latex))
  /\ Truthy(config.model)

\* app.py:1377-1426
ClickGenerateEmail ==
  /\ pc = "idle"
  /\ clicks < env.clicks
  /\ clicks' = clicks + 1
  /\ IF ~Validated
       THEN /\ completion_params' = <<>>
            /\ generated_email_body' = NoValue
            /\ generated_sop_latex' = NoValue
       ELSE \E answer \in DraftAnswers, sop_answer \in DraftAnswers :
              LET email == Draft(config, <<"email prompt", cv_text, prof_info,
                                          sidebar.student_name>>, answer)
                  sop == Draft(config, <<"sop prompt", cv_text, prof_info,
                                        sidebar.sop_template_latex, sidebar.student_name>>,
                               sop_answer)
              IN  /\ generated_email_body' = email.value
                  /\ IF sidebar.draft_sop
                       THEN /\ generated_sop_latex' = sop.value
                            /\ completion_params' = email.requests \o sop.requests
                       ELSE /\ generated_sop_latex' = NoValue
                            /\ completion_params' = email.requests
  /\ UNCHANGED <<call, pc, env, corpusVars, matchVars, phd_professors, enrichVars, hiringVars,
                 prof_info, sidebar, timing_info, timingLog>>

\* ------------------------------------------ the GPT-5 detection scripts
\* The model names the scripts try: a family name, in some letter case, and
\* a variant suffix.  The names of test_gpt5_model_detection.py:16-38 are
\* among them; the empty name stands for '' and for None, which the test of
\* is_gpt5_model (if not model_name) treats alike.
ModelFamilies ==
  { <<"g","p","t","-","5">>, <<"g","p","t","5">>, <<"G","P","T","-","5">>, <<"G","p","t","5">>,
    <<"g","p","t","-","4">>, <<"g","p","t","-","4","o">>, <<"g","p","t","-","3",".","5">>,
    <<"g","p","t","-","4",".","5">>, <<"g","p","t","-">>, <<"g","p","t">>, <<"o","1">>,
    <<"g","e","m","i","n","i","-","1",".","5">>, <<"m","y","-","g","p","t","-","5">>,
    <<"g","p","t","_","5">>, <<>> }

ModelVariants ==
  { <<>>, <<"-","m","i","n","i">>, <<"-","n","a","n","o">>, <<"-","M","I","N","I">>,
    <<"-","t","u","r","b","o">>, <<"-","p","r","e","v","i","e","w">>, <<"-","f","l","a","s","h">>,
    <<"5">> }

ModelNames == {family \o variant : family \in ModelFamilies, variant \in ModelVariants}

\* test_gpt5_model_detection.py:45-60, demo_gpt5_functionality.py:34: one
\* call of is_gpt5_model
DetectModel ==
  /\ \E model_name \in ModelNames :
       call' = [function |-> "is_gpt5_model", model_name |-> model_name,
                value |-> is_gpt5_model(model_name)]
  /\ UNCHANGED <<pc, env, corpusVars, matchVars, laterVars, emailVars>>
\* -------------------------------------------------------- specifications
vars == <<pc, env, corpusVars, matchVars, laterVars, emailVars, call>>

\* The session starts with nothing stored and no run under way.
Idle ==
  /\ pc = "idle"
  /\ clicks = 0
  /\ phd_professors = NoValue
  /\ research_areas = <<>>
  /\ faculty_search_queries = <<>>
  /\ qi = 1
  /\ all_search_results = <<>>
  /\ searchLog = <<>>
  /\ ei = 1
  /\ extracted_content = <<>>
  /\ extractLog = <<>>
  /\ tavily_results = NoValue
  /\ professors_result = NoValue
  /\ llm_requests = <<>>
  /\ llm_context = <<>>
  /\ llm_answer = NoValue
  /\ professors_before = <<>>
  /\ pi = 1
  /\ enhanced_professors = <<>>
  /\ enrichLog = <<>>
  /\ hi = 1
  /\ hiring_analysis = <<>>
  /\ hiringLog = <<>>
  /\ hiring_queries = <<>>
  /\ timing_info = NoValue
  /\ timingLog = NoValue
  /\ completion_params = <<>>
  /\ generated_email_body = NoValue
  /\ generated_sop_latex = NoValue
  /\ call = NoValue

\* Nothing is entered in the Email Draft tab.
EmailTabBlank ==
  /\ prof_info = <<>>
  /\ sidebar = [api_key |-> <<"sk-key">>, student_name |-> <<"Koshik Debanath">>,
                draft_sop |-> FALSE, sop_template_latex |-> <<>>]

Start(e, available, cvs, configs) ==
  /\ Idle
  /\ env = e
  /\ TavilyClient \in available
  /\ cv_text \in cvs
  /\ university_name = ExampleUniversity
  /\ config \in configs
  /\ EmailTabBlank

\* The Find Professors handler (app.py:1565-1583): the enhanced search, then
\* the enrichment of a result or the report of an error.
NextFind ==
  \/ ClickFind
  \/ TavilyStart
  \/ QueryStep
  \/ SearchDone
  \/ ExtractStep
  \/ ExtractDone
  \/ EnhancedMatch
  \/ FallbackSearch
  \/ FindFailed
  \/ EnhanceStart
  \/ EnhanceStep
  \/ EnhanceDone

\* Sessions in which Find Professors is clicked.
InitSearch == Start(SearchEnv, BOOLEAN, {CvPhysics, CvMachineLearning}, {OpenAIStructured})
SpecSearch == InitSearch /\ [][NextFind]_vars

InitExtract == Start(ExtractEnv, {TRUE}, {CvPhysics}, {OpenAIStructured})
SpecExtract == InitExtract /\ [][NextFind]_vars

InitMatch == Start(MatchEnv, {TRUE}, {CvPhysics}, Configs)
SpecMatch == InitMatch /\ [][NextFind]_vars

InitEnrich == Start(EnrichEnv, {TRUE}, {CvPhysics}, {OpenAIStructured})
SpecEnrich == InitEnrich /\ [][NextFind]_vars

\* Sessions that differ in the CV and the university entered.
StartAt(e, cvs, universities) ==
  /\ Idle
  /\ env = e
  /\ TavilyClient = TRUE
  /\ cv_text \in cvs
  /\ university_name \in universities
  /\ config = OpenAIStructured
  /\ EmailTabBlank

InitPlan == StartAt(PlanEnv, CvTexts, Universities)
SpecPlan == InitPlan /\ [][NextFind]_vars

\* Both handlers: Find Professors and Analyze Hiring Status
\* (app.py:1586-1604).
NextAnalyze ==
  \/ NextFind
  \/ ClickAnalyze
  \/ AnalyzeStep
  \/ AnalyzeDone

\* Sessions in which both buttons are clicked.
InitAnalyze == Start(AnalyzeEnv, {TRUE}, {CvPhysics}, {OpenAIStructured})
SpecAnalyze == InitAnalyze /\ [][NextAnalyze]_vars

InitClassify == Start(ClassifyEnv, {TRUE}, {CvPhysics}, {OpenAIStructured})
SpecClassify == InitClassify /\ [][NextAnalyze]_vars

\* Sessions of three clicks of the two buttons, with the university input
\* edited between them.
SessionEnv ==
  Env(0, 1, 1, "ordinary", {Len(base_templates)}, 0, "one", "none", "none", "few", 3)

NextSession ==
  \/ NextAnalyze
  \/ EditUniversity

InitSession == Start(SessionEnv, {TRUE}, {CvPhysics}, {OpenAIStructured})
SpecSession == InitSession /\ [][NextSession]_vars

\* The Email Draft tab: its two buttons, any number of times up to the
\* session's clicks.
EmailEnv == Env(0, 1, 1, "ordinary", {1}, 0, "one", "none", "none", "few", 2)

NextEmail == ClickSendingTime \/ ClickGenerateEmail

InitEmail ==
  /\ Idle
  /\ env = EmailEnv
  /\ TavilyClient = TRUE
  /\ cv_text \in {<<>>, CvPhysics}
  /\ university_name = <<>>
  /\ config \in EmailConfigs
  /\ prof_info \in ProfInfos
  /\ sidebar \in Sidebars

SpecEmail == InitEmail /\ [][NextEmail]_vars

\* The test and demo scripts of the GPT-5 detection: is_gpt5_model applied
\* to one model name after another.
InitDetect ==
  /\ Idle
  /\ env = EmailEnv
  /\ TavilyClient = TRUE
  /\ cv_text = <<>>
  /\ university_name = <<>>
  /\ config = OpenAIStructured
  /\ EmailTabBlank

SpecDetect == InitDetect /\ [][DetectModel]_vars

\* ============================================================ properties
\* The states in which search_professors_by_university_enhanced has returned.
FindReturned == pc = "find_returned"

\* The query loop ran every query of the plan.
AllQueriesRun ==
  /\ TavilyClient
  /\ pc \in {"extract", "tavily_returned", "find_returned"}
  /\ Len(searchLog) = Len(faculty_search_queries)

\* Every query of the run returned a response without hits.
ZeroHitRun ==
  /\ AllQueriesRun
  /\ Len(searchLog) >= Len(base_templates)
  /\ \A i \in 1..Len(searchLog) : ~searchLog[i].raised /\ searchLog[i].results = <<>>

\* C1: when every search query of a run returns zero hits, the enhanced
\* search returns an error, never a DiscoveryResult, and makes no LLM request.
C1_ZeroHitsStopPipeline ==
  (FindReturned /\ ZeroHitRun) => (IsError(professors_result) /\ llm_requests = <<>>)

\* The hits of all_search_results that query number i returned, in order.
RECURSIVE HitsOfQuery(_, _)
HitsOfQuery(all, i) ==
  IF all = <<>> THEN <<>>
  ELSE (IF all[1].q = i THEN <<all[1]>> ELSE <<>>) \o HitsOfQuery(Tail(all), i)

\* C2: a query whose search call raises adds no hit and does not end the
\* loop: all later queries are run, and the aggregate hit list holds exactly
\* the hits of the queries that did not raise, in query order.
C2_FailedQueryIsolated ==
  /\ pc = "search" => Len(searchLog) = qi - 1
  /\ (TavilyClient /\ pc \in {"extract", "tavily_returned", "find_returned"})
       => Len(searchLog) = Len(faculty_search_queries)
  /\ \A i \in 1..Len(searchLog) :
       HitsOfQuery(all_search_results, i) =
         (IF searchLog[i].raised THEN <<>> ELSE searchLog[i].results)
  /\ \A k \in 1..(Len(all_search_results) - 1) :
       all_search_results[k].q <= all_search_results[k + 1].q
  /\ Len(all_search_results) = ReturnedHits(searchLog)

\* A run in which a query raised and a later query's hits were kept.
C2_Witness ==
  /\ AllQueriesRun
  /\ \E i, j \in 1..Len(searchLog) :
       /\ i < j
       /\ searchLog[i].raised
       /\ searchLog[j].results # <<>>
       /\ HitsOfQuery(all_search_results, j) = searchLog[j].results

\* The states in which search_professors_with_tavily has returned after its
\* extraction loop.
ExtractionReturned ==
  /\ TavilyClient
  /\ pc \in {"tavily_returned", "find_returned"}
  /\ all_search_results # <<>>

\* The blocks of the corpus the function returned (none with the error).
ReturnedBlocks ==
  IF IsError(tavily_results) THEN <<>> ELSE tavily_results.extracted_content

\* The blocks of a block list that hold a text of the given hit.
RECURSIVE BlocksOfHit(_, _)
BlocksOfHit(blocks, hit) ==
  IF blocks = <<>> THEN <<>>
  ELSE (IF blocks[1].content \in {HitText(f, hit.q, hit.rank) :
                                    f \in {"page", "content", "raw_content", "snippet"}}
          THEN <<blocks[1]>> ELSE <<>>)
       \o BlocksOfHit(Tail(blocks), hit)

\* The text the fallback order picks for a hit whose extract call returned
\* out: page text, else content snippet, else raw content, else none.
PageElseContentElseRaw(hit, out) ==
  CASE ~out.raised /\ out.content # <<>> -> <<out.content>>
    [] OTHER -> (CASE hit.content # <<>>     -> <<hit.content>>
                   [] hit.raw_content # <<>> -> <<hit.raw_content>>
                   [] OTHER                  -> <<>>)

CallFor(i) == extractLog[CHOOSE k \in 1..Len(extractLog) : extractLog[k].hit = i]

\* What the extraction loop adds for hit number i.
LoopBlocksOfHit(i) ==
  LET hit == all_search_results[i] IN
    IF hit.url = <<>> THEN <<>>
    ELSE LET texts == PageElseContentElseRaw(hit, CallFor(i))
         IN  [j \in 1..Len(texts) |-> Block(hit.url, texts[j])]

\* What the second pass adds for a hit: content snippet, else snippet field.
SecondPassBlocksOfHit(hit) ==
  LET source == IF hit.url = <<>> THEN Unknown ELSE hit.url IN
    CASE hit.content # <<>> -> <<Block(source, hit.content)>>
      [] hit.snippet # <<>> -> <<Block(source, hit.snippet)>>
      [] OTHER              -> <<>>

JsonModeReceived ==
  /\ FindReturned
  /\ llm_requests # <<>> /\ llm_requests[Len(llm_requests)] = "create"
  /\ ~llm_answer.create.raised
GeminiReceived == FindReturned /\ llm_requests = <<"generate_content">>
TextReceived == ~IsError(tavily_results) /\ (JsonModeReceived \/ GeminiReceived)
ReceivedResponse == IF JsonModeReceived THEN llm_answer.create.response ELSE llm_answer.gemini

\* The text parses on the path taken, and the professor records it holds
\* after the path's normalization.
ReceivedParses ==
  IF JsonModeReceived THEN JsonLoads(ReceivedResponse) ELSE SliceLoads(ReceivedResponse)
NormalizedObject ==
  IF JsonModeReceived
    THEN SetKey(NormalizeProfessors(SetDefault(ReceivedResponse.data, "university",
                                               JStr(university_name)), "OpenAI"),
                "hiring_analysis", <<>>)
    ELSE SetKey(NormalizeProfessors(ReceivedResponse.data, "Gemini"),
                "hiring_analysis", <<>>)

RECURSIVE NamedRecords(_)
NamedRecords(ps) ==
  IF ps = <<>> THEN <<>>
  ELSE (IF "name" \in DOMAIN ps[1] THEN <<ps[1]>> ELSE <<>>) \o NamedRecords(Tail(ps))

\* A parsed list with a record that has no name after normalization, all the
\* records that have one being valid.
NamelessRecordReceived ==
  /\ TextReceived /\ ReceivedParses
  /\ "professors" \in DOMAIN NormalizedObject
  /\ LET ps == NormalizedObject["professors"] IN
       /\ \E i \in 1..Len(ps) : "name" \notin DOMAIN ps[i]
       /\ \A i \in 1..Len(ps) : "name" \in DOMAIN ps[i] => ValidProfessorInfo(ps[i])

\* C5: when the LLM's list holds a record without a name after
\* normalization, the matcher drops that record only and returns a result
\* with the remaining valid records in their original order.
C5_NamelessRecordDropped ==
  NamelessRecordReceived =>
    /\ IsResult(professors_result)
    /\ LET kept == NamedRecords(NormalizedObject["professors"]) IN
         professors_result.professors = [i \in 1..Len(kept) |-> ProfessorInfo(kept[i])]

\* The matcher got a response text from which no valid list comes: it does
\* not parse, or the parsed object violates the schema after normalization.
NoValidListReceived ==
  /\ TextReceived
  /\ ~ReceivedParses \/ ~ValidPhDPositionResult(NormalizedObject)

\* C6: whenever the matcher cannot obtain a valid professor list, on any
\* provider path, it returns an error that carries the raw response text,
\* and never a result.
C6_ErrorCarriesRawText ==
  NoValidListReceived =>
    /\ IsError(professors_result)
    /\ professors_result.raw = ReceivedResponse.text

\* The states in which enhance_professor_info has returned for a list that
\* was not empty, and the result is stored.
EnrichmentReturned ==
  /\ pc = "idle"
  /\ IsResult(professors_result)
  /\ professors_before # <<>>
  /\ phd_professors = professors_result

\* The first url of an answer that holds the pattern, none when the call
\* raised or no url of the answer holds it.
FoundLink(answer, pattern) ==
  IF answer.raised THEN <<>>
  ELSE LET matching == {k \in 1..Len(answer.results) : In(pattern, answer.results[k].url)}
       IN  IF matching = {} THEN <<>>
           ELSE answer.results[CHOOSE k \in matching : \A m \in matching : k <= m].url

\* The link a professor has after the call, from the link it had and what
\* its own two searches answered.
LinkAfter(old, answer, pattern) ==
  IF old # <<>> THEN old ELSE FoundLink(answer, pattern)

\* C4: a search that raises while one professor is enriched does not block
\* the others: every professor that misses a link is searched, each gets
\* the link fields its own searches give, and the whole list is returned.
C4_SearchFailureIsolated ==
  /\ Len(enrichLog) = Len(enhanced_professors)
  /\ pc = "enhance" => Len(enrichLog) = pi - 1
  /\ \A i \in 1..Len(enrichLog) :
       LET before == professors_before[i]
           after == enhanced_professors[i]
       IN  /\ enrichLog[i].searched <=> (before.google_scholar = <<>> \/ before.linkedin = <<>>)
           /\ after.google_scholar =
                LinkAfter(before.google_scholar, enrichLog[i].scholar, ScholarPattern)
           /\ after.linkedin =
                LinkAfter(before.linkedin, enrichLog[i].linkedin, LinkedinPattern)
  /\ EnrichmentReturned =>
       /\ Len(enrichLog) = Len(professors_before)
       /\ phd_professors.professors = enhanced_professors

\* Both searches of the first professor raised, and the second professor,
\* who had no Google Scholar link, got one from its own search.
C4_Witness ==
  /\ EnrichmentReturned
  /\ Len(professors_before) >= 2
  /\ enrichLog[1].searched /\ enrichLog[1].scholar.raised /\ enrichLog[1].linkedin.raised
  /\ professors_before[2].google_scholar = <<>>
  /\ phd_professors.professors[2].google_scholar # <<>>

\* C8: a google_scholar or linkedin value that was populated before the
\* call is the same after it, whatever the searches answered.
C8_PopulatedLinkKept ==
  /\ \A i \in 1..Len(enhanced_professors) :
       /\ professors_before[i].google_scholar # <<>>
            => enhanced_professors[i].google_scholar = professors_before[i].google_scholar
       /\ professors_before[i].linkedin # <<>>
            => enhanced_professors[i].linkedin = professors_before[i].linkedin
  /\ EnrichmentReturned =>
       \A i \in 1..Len(professors_before) :
         /\ professors_before[i].google_scholar # <<>>
              => phd_professors.professors[i].google_scholar = professors_before[i].google_scholar
         /\ professors_before[i].linkedin # <<>>
              => phd_professors.professors[i].linkedin = professors_before[i].linkedin

\* A professor with a LinkedIn link and no Google Scholar link was searched,
\* the LinkedIn search found another profile url, and the link was kept.
C8_Witness ==
  /\ EnrichmentReturned
  /\ \E i \in 1..Len(professors_before) :
       /\ professors_before[i].linkedin # <<>>
       /\ enrichLog[i].searched
       /\ FoundLink(enrichLog[i].linkedin, LinkedinPattern) # <<>>
       /\ FoundLink(enrichLog[i].linkedin, LinkedinPattern) # professors_before[i].linkedin
       /\ phd_professors.professors[i].linkedin = professors_before[i].linkedin

\* The fields enhance_professor_info leaves alone.
KeptFields == {"name", "title", "department", "research_areas", "email", "website"}

\* The call has returned, for an empty list or not, and the result is stored.
EnhanceReturned ==
  /\ pc = "idle"
  /\ IsResult(professors_result)
  /\ phd_professors = professors_result

\* C9: the returned list has the length and the order of the input and only
\* google_scholar and linkedin may differ, for every input, the empty list
\* included.
C9_SameProfessorsSameOrder ==
  /\ \A i \in 1..Len(enhanced_professors) :
       \A f \in KeptFields : enhanced_professors[i][f] = professors_before[i][f]
  /\ EnhanceReturned =>
       /\ Len(phd_professors.professors) = Len(professors_before)
       /\ \A i \in 1..Len(professors_before) :
            \A f \in KeptFields : phd_professors.professors[i][f] = professors_before[i][f]

\* A list of two professors came back with a link added to the second.
C9_Witness ==
  /\ EnhanceReturned
  /\ Len(professors_before) = 2
  /\ professors_before[1].name # professors_before[2].name
  /\ phd_professors.professors[2].linkedin # professors_before[2].linkedin

\* The empty list came back empty.
C9_WitnessEmpty ==
  /\ EnhanceReturned
  /\ professors_before = <<>>
  /\ phd_professors.professors = <<>>

\* The text of a sequence of one-character and longer strings holds a piece.
HoldsPiece(text, piece) == \E k \in 1..Len(text) : text[k] = piece

\* C3: analyze_all_professors gives one entry per professor, in the order
\* of the professors; the entry of a lookup that raised has is_hiring false,
\* details that hold the error and no sources; the entry of any other
\* professor is what its own lookup gives, whatever lookups failed.
C3_OneEntryPerProfessor ==
  /\ Len(hiring_analysis) = Len(hiringLog)
  /\ pc = "analyze" => Len(hiring_analysis) = hi - 1
  /\ (pc = "analyze" \/ hiring_analysis # <<>>) =>
       /\ Len(hiring_analysis) <= Len(phd_professors.professors)
       /\ \A i \in 1..Len(hiring_analysis) :
            LET professor == phd_professors.professors[i]
                entry == hiring_analysis[i]
            IN  /\ entry.professor_name = professor.name
                /\ hiringLog[i].raised =>
                     /\ entry.is_hiring = FALSE
                     /\ entry.sources = <<>>
                     /\ HoldsPiece(entry.details, "Error searching for ")
                     /\ HoldsPiece(entry.details, ": {e}")
                /\ ~hiringLog[i].raised =>
                     entry = search_hiring_info(professor.name, TRUE, hiringLog[i])
  /\ (pc = "idle" /\ hiringLog # <<>>) =>
       /\ Len(hiring_analysis) = Len(phd_professors.professors)
       /\ phd_professors.hiring_analysis = hiring_analysis

\* The analysis of two professors is stored: the lookup of the first raised,
\* the second is found hiring from its own lookup.
C3_Witness ==
  /\ pc = "idle"
  /\ IsResult(phd_professors)
  /\ Len(phd_professors.professors) = 2
  /\ Len(phd_professors.hiring_analysis) = 2
  /\ hiringLog[1].raised /\ ~hiringLog[2].raised
  /\ ~phd_professors.hiring_analysis[1].is_hiring
  /\ phd_professors.hiring_analysis[2].is_hiring
  /\ phd_professors.hiring_analysis[2].sources # <<>>

\* The phrases that say a professor is not hiring: the not-hiring keywords
\* and the phrase "no longer accepting new students".
NotHiringPhrases == Range(not_hiring_keywords) \cup {Lower(TextNoLonger)}

\* C7: a text that holds a not-hiring phrase and a hiring keyword is
\* classified as not hiring; so is a text that holds "no longer accepting
\* new students" and "seeking PhD students".
C7_NotHiringWins ==
  \A i \in 1..Len(hiringLog) :
    ~hiringLog[i].raised =>
      LET content_lower == Lower(ContentText(hiringLog[i].results)) IN
        ( /\ \E phrase \in NotHiringPhrases : In(phrase, content_lower)
          /\ \E k \in 1..Len(hiring_keywords) : In(hiring_keywords[k], content_lower) )
        => hiring_analysis[i].is_hiring = FALSE

\* The matcher ran against a corpus and returned a result.
MatcherReturnedResult ==
  FindReturned /\ ~IsError(tavily_results) /\ IsResult(professors_result)

\* C11: on every response path the result the matcher returns has an empty
\* hiring_analysis, also when the LLM's own output held hiring_analysis
\* entries.
C11_MatcherAnalysisEmpty ==
  MatcherReturnedResult => professors_result.hiring_analysis = <<>>

\* The run built its query plan (app.py:162).
Planned == faculty_search_queries # <<>>

\* The templates of the queries of a plan, in order.
TemplatesOf(queries) == [i \in 1..Len(queries) |-> queries[i].template]

\* The part of the plan after the base queries.
AreaSpecificPart ==
  SubSeq(faculty_search_queries, Len(base_templates) + 1, Len(faculty_search_queries))

\* The templates of the given areas, area by area.
TemplatesOfAreas(areas) == Flatten([i \in 1..Len(areas) |-> area_templates(areas[i])])

\* C12: for every university and every list of extracted areas the query plan
\* is the fixed base queries (at least 10) followed by exactly the
\* area-specific templates of the areas, each query with the university:
\* no areas give no area-specific query, and robotics alone gives the base
\* queries followed by the three robotics templates.
C12_BaseThenAreaQueries ==
  Planned =>
    /\ Len(base_templates) >= 10
    /\ Len(faculty_search_queries) >= Len(base_templates)
    /\ \A i \in 1..Len(faculty_search_queries) :
         faculty_search_queries[i].university = university_name
    /\ SubSeq(TemplatesOf(faculty_search_queries), 1, Len(base_templates)) = base_templates
    /\ TemplatesOf(AreaSpecificPart) = TemplatesOfAreas(research_areas)
    /\ research_areas = <<>> => AreaSpecificPart = <<>>
    /\ research_areas = <<"robotics">> =>
         TemplatesOf(AreaSpecificPart) =
           <<"robotics faculty", "automation professors", "control systems faculty">>

\* A run planned for a CV of robotics alone at the other university.
C12_Witness ==
  /\ Planned
  /\ university_name = OtherUniversity
  /\ research_areas = <<"robotics">>
  /\ Len(faculty_search_queries) = Len(base_templates) + 3

\* C13: for every area tag that extract_research_areas_from_cv returned, the
\* planner appends 2 to 3 area-specific queries to the plan.
C13_EveryAreaAddsQueries ==
  Planned =>
    /\ \A i \in 1..Len(research_areas) : Len(area_templates(research_areas[i])) \in 2..3
    /\ Len(AreaSpecificPart) >= 2 * Len(research_areas)
    /\ Len(AreaSpecificPart) <= 3 * Len(research_areas)

\* The keyword occurs in the text when letter case is ignored.
OccursInAnyCase(keyword, text) == In(Lower(keyword), Lower(text))

\* C14: a tag is among the extracted areas whenever a keyword of its list
\* occurs in the CV text in any letter case (AI, ML and the other keywords of
\* the AI group give artificial_intelligence), and the empty text gives the
\* empty list.
C14_KeywordInAnyCaseFound ==
  /\ extract_research_areas_from_cv(<<>>) = <<>>
  /\ Planned =>
       \A i \in 1..Len(research_keywords) :
         (\E k \in 1..Len(research_keywords[i].keywords) :
            OccursInAnyCase(research_keywords[i].keywords[k], cv_text))
         => research_keywords[i].area \in Range(research_areas)

\* The matcher received a response text that parsed to an object with a
\* professors list, on the JSON-mode or the Gemini path.
ListReceived ==
  /\ JsonModeReceived \/ GeminiReceived
  /\ ReceivedParses
  /\ "professors" \in DOMAIN ReceivedResponse.data

RawList == ReceivedResponse.data["professors"]

\* The raw object has full_name instead of name.
FullNameInsteadOfName(p) == "full_name" \in DOMAIN p /\ "name" \notin DOMAIN p

\* The raw object satisfies the schema when its full_name is read as its name.
AcceptableRaw(p) ==
  /\ IF "name" \in DOMAIN p THEN p["name"].type = "str"
     ELSE "full_name" \in DOMAIN p /\ p["full_name"].type = "str"
  /\ "research_areas" \in DOMAIN p /\ p["research_areas"].type = "list"
  /\ \A k \in {"title", "department"} \cap DOMAIN p : p[k].type = "str"
  /\ \A k \in OptionalKeys \cap DOMAIN p : p[k].type \in {"str", "null"}

AcceptableListReceived ==
  ListReceived /\ \A i \in 1..Len(RawList) : AcceptableRaw(RawList[i])

\* C15: on the JSON-mode and the Gemini path, a raw professor object that
\* has full_name instead of name becomes a record whose name is the former
\* full_name value and that has no full_name key.
C15_FullNameBecomesName ==
  AcceptableListReceived =>
    /\ IsResult(professors_result)
    /\ Len(professors_result.professors) = Len(RawList)
    /\ \A i \in 1..Len(RawList) :
         FullNameInsteadOfName(RawList[i]) =>
           /\ professors_result.professors[i].name = RawList[i]["full_name"].val
           /\ "full_name" \notin DOMAIN professors_result.professors[i]
           /\ "full_name" \notin DOMAIN NormalizedObject["professors"][i]

\* A Gemini response wrapped in prose, holding a record with full_name only
\* after a record with a name.
C15_Witness ==
  /\ AcceptableListReceived /\ GeminiReceived
  /\ ReceivedResponse.shape = "wrapped"
  /\ Len(RawList) = 2
  /\ ~FullNameInsteadOfName(RawList[1]) /\ FullNameInsteadOfName(RawList[2])
  /\ professors_result.professors[2].name = <<"Ada Poe">>

\* The structured completion returned a parsed object, which the matcher
\* returned after its fixes.
StructuredReceived == FindReturned /\ llm_requests = <<"parse">>

\* The value of a key of a raw object, or the default when the key is missing.
SuppliedOr(p, k, default) == IF k \in DOMAIN p THEN p[k].val ELSE default

\* C16: on every response path a professor whose title is not supplied gets
\* the title "Professor" and one whose department is not supplied gets the
\* department "Computer Science"; a professor that supplies them keeps its
\* own values.  A raw object supplies a field by having the key, a typed
\* object of the structured path by a value that is not empty.
C16_TitleAndDepartmentDefaults ==
  /\ AcceptableListReceived =>
       /\ IsResult(professors_result)
       /\ Len(professors_result.professors) = Len(RawList)
       /\ \A i \in 1..Len(RawList) :
            /\ professors_result.professors[i].title =
                 SuppliedOr(RawList[i], "title", <<"Professor">>)
            /\ professors_result.professors[i].department =
                 SuppliedOr(RawList[i], "department", <<"Computer Science">>)
  /\ StructuredReceived =>
       /\ IsResult(professors_result)
       /\ Len(professors_result.professors) = Len(llm_answer.parse.parsed.professors)
       /\ \A i \in 1..Len(professors_result.professors) :
            LET given == llm_answer.parse.parsed.professors[i] IN
              /\ professors_result.professors[i].title =
                   (IF given.title = <<>> THEN <<"Professor">> ELSE given.title)
              /\ professors_result.professors[i].department =
                   (IF given.department = <<>> THEN <<"Computer Science">>
                    ELSE given.department)

\* A JSON-mode response, matched against a corpus, whose first record
\* supplies a department and no title and whose second supplies both.
C16_Witness ==
  /\ AcceptableListReceived /\ JsonModeReceived /\ ~IsError(tavily_results)
  /\ Len(RawList) = 2
  /\ DOMAIN RawList[1] \cap {"title", "department"} = {"department"}
  /\ DOMAIN RawList[2] \cap {"title", "department"} = {"title", "department"}
  /\ professors_result.professors[1].title = <<"Professor">>
  /\ professors_result.professors[1].department = <<"Statistics">>
  /\ professors_result.professors[2].title = <<"Associate Professor">>

\* C17: when the analysed text holds a hiring keyword, the position type of
\* the entry is read off the text: "PhD Student" when the text holds phd or
\* graduate, otherwise "Postdoc" when it holds postdoc, whichever hiring
\* keywords occur.
C17_PositionTypeFromText ==
  \A i \in 1..Len(hiringLog) :
    ~hiringLog[i].raised =>
      LET content_lower == Lower(ContentText(hiringLog[i].results)) IN
        (\E k \in 1..Len(hiring_keywords) : In(hiring_keywords[k], content_lower)) =>
          /\ (In(Phd, content_lower) \/ In(Graduate, content_lower)) =>
               hiring_analysis[i].position_type = <<"PhD Student">>
          /\ (In(Postdoc, content_lower) /\ ~In(Phd, content_lower)
                /\ ~In(Graduate, content_lower)) =>
               hiring_analysis[i].position_type = <<"Postdoc">>

\* The Calculate Optimal Sending Time handler called get_optimal_sending_time.
SendingTimeCalled == timingLog # NoValue

\* The call returned a text that holds a recommendation.
RecommendationReturned ==
  /\ SendingTimeCalled
  /\ timing_info.kind = "str"
  /\ timing_info.body.what = "recommendation"

\* C18: the recommendation get_optimal_sending_time returns never has a
\* recipient time on a Saturday or a Sunday, whatever the current time and
\* whatever the LLM answers.
C18_NeverOnWeekend ==
  RecommendationReturned =>
    timing_info.body.optimal_time_prof.day \notin {"Saturday", "Sunday"}

\* Neither LLM provider is available for the call.
NoProvider ==
  /\ ~(config.api_choice = "OpenAI" /\ config.OpenAI)
  /\ ~(config.api_choice = "Gemini" /\ config.genai)

\* The call could not resolve the recipient's zone: no professor
\* information, no provider, or an LLM call that failed.
ZoneUnresolved ==
  /\ SendingTimeCalled
  /\ ~Truthy(prof_info) \/ NoProvider \/ timingLog.answer = Raised

\* C19: when the zone cannot be resolved, get_optimal_sending_time returns an
\* explicit error text: not None, not a recommendation, and no exception
\* leaves it.
C19_ExplicitErrorWhenUnresolved ==
  ZoneUnresolved =>
    /\ timing_info.kind = "str"
    /\ timing_info.body.what = "error"

\* C20: every request get_openai_response builds has a temperature exactly
\* when its model is not a GPT-5 model by its name's prefix, and has the same
\* other parameters, model and messages, in both cases.
C20_TemperatureUnlessGpt5 ==
  \A i \in 1..Len(completion_params) :
    /\ "temperature" \in DOMAIN completion_params[i]
         <=> ~is_gpt5_model(completion_params[i].model)
    /\ DOMAIN completion_params[i] \ {"temperature"} = {"model", "messages"}

\* A test or demo script called is_gpt5_model.
Detected == call # NoValue /\ call.function = "is_gpt5_model"

\* The name begins with the letters of the word, in any letter case.
BeginsWithLetters(name, word) ==
  /\ Len(name) >= Len(word)
  /\ \A i \in 1..Len(word) :
       \/ name[i] = word[i]
       \/ name[i] \in DOMAIN UpperToLower /\ UpperToLower[name[i]] = word[i]

\* The names test_gpt5_model_detection.py expects to be detected, and those it
\* expects not to be ('' stands for None as well).
ExpectedGpt5 ==
  { <<"g","p","t","-","5">>,
    <<"g","p","t","-","5","-","m","i","n","i">>,
    <<"g","p","t","-","5","-","n","a","n","o">>,
    <<"G","P","T","-","5">>,
    <<"G","P","T","-","5","-","M","I","N","I">>,
    <<"g","p","t","5">>,
    <<"g","p","t","5","-","m","i","n","i">> }

ExpectedOther ==
  { <<"g","p","t","-","4">>,
    <<"g","p","t","-","4","o">>,
    <<"g","p","t","-","4","o","-","m","i","n","i">>,
    <<"g","p","t","-","3",".","5","-","t","u","r","b","o">>,
    <<"g","p","t","-","4","-","t","u","r","b","o">>,
    <<"o","1","-","p","r","e","v","i","e","w">>,
    <<"o","1","-","m","i","n","i">>,
    <<"g","e","m","i","n","i","-","1",".","5","-","f","l","a","s","h">>,
    <<>> }

\* C21: is_gpt5_model returns a truth value for every name; it is true
\* exactly when the name is not empty and begins, in any letter case, with
\* gpt-5 or gpt5, so true for the GPT-5 names of the test and false for its
\* gpt-4, o1 and gemini names, the empty string and None.
C21_Gpt5ByPrefix ==
  Detected =>
    /\ call.value \in BOOLEAN
    /\ call.value <=>
         /\ call.model_name # <<>>
         /\ \/ BeginsWithLetters(call.model_name, <<"g","p","t","-","5">>)
            \/ BeginsWithLetters(call.model_name, <<"g","p","t","5">>)
    /\ call.model_name \in ExpectedGpt5 => call.value
    /\ call.model_name \in ExpectedOther => ~call.value

\* The upper-case name GPT-5-MINI was detected.
C21_Witness ==
  /\ Detected
  /\ call.model_name = <<"G","P","T","-","5","-","M","I","N","I">>
  /\ call.value

\* No two professors of the list have the same name.
UniqueNames(professors) ==
  \A i, j \in 1..Len(professors) : professors[i].name = professors[j].name => i = j

\* C22: in every result the matcher returns, and in the stored result after
\* enrichment and hiring analysis, no two professors have the same name,
\* whatever list the LLM returned.
C22_NameIsUniqueKey ==
  /\ (FindReturned /\ IsResult(professors_result)) => UniqueNames(professors_result.professors)
  /\ IsResult(phd_professors) => UniqueNames(phd_professors.professors)

\* The hit at position i of the list comes before the one at position j in
\* query order, then in rank.
InQueryThenRankOrder(all, i, j) ==
  \/ all[i].q < all[j].q
  \/ all[i].q = all[j].q /\ all[i].rank < all[j].rank

\* C23: the aggregate hit list is in query order, then in hit rank; extract
\* is called only for hits among the first 5 of the list, in list order, so
\* a run makes at most 5 extract calls, one for each of those hits that has
\* a url, and its corpus has at most 5 blocks, and every hit that is selected comes from a query no later than the
\* query of any hit that is left out.
C23_FirstFiveInQueryOrder ==
  /\ \A i, j \in 1..Len(all_search_results) :
       i < j => InQueryThenRankOrder(all_search_results, i, j)
  /\ Len(extractLog) <= 5
  /\ \A k \in 1..Len(extractLog) :
       /\ extractLog[k].hit \in 1..Min(5, Len(all_search_results))
       /\ k > 1 => extractLog[k - 1].hit < extractLog[k].hit
       /\ \A j \in 1..Len(all_search_results) :
            j > 5 => all_search_results[extractLog[k].hit].q <= all_search_results[j].q
  /\ Len(extracted_content) <= 5
  /\ (pc = "tavily_returned" /\ Truthy(all_search_results)) =>
       Len(extractLog) =
         Cardinality({i \in 1..Min(5, Len(all_search_results)) :
                        Truthy(all_search_results[i].url)})

\* A run with six hits, the first of the first base query and the last of an
\* area-specific query, whose extraction made five calls.
C23_Witness ==
  /\ pc = "tavily_returned"
  /\ Len(all_search_results) = 6
  /\ all_search_results[1].q = 1
  /\ all_search_results[6].q > Len(base_templates)
  /\ Len(extractLog) = 5
  /\ Len(extracted_content) = 5

\* C24: the matcher requests the structured completion first, for the
\* models that have it, and makes the JSON or freeform request only after
\* the structured attempt failed or when the model has none; a run whose
\* structured attempt succeeded made exactly one LLM request, and no run
\* makes more than two.
C24_StructuredThenFallback ==
  FindReturned =>
    /\ Len(llm_requests) <= 2
    /\ \A i \in 1..Len(llm_requests) : llm_requests[i] = "parse" => i = 1
    /\ (config.api_choice = "OpenAI" /\ config.OpenAI /\ config.model \in structured_output_models)
         => llm_requests # <<>> /\ llm_requests[1] = "parse"
    /\ (llm_requests # <<>> /\ llm_requests[1] = "parse") =>
         /\ config.model \in structured_output_models
         /\ IF llm_answer.parse.raised
              THEN llm_requests = <<"parse", "create">>
              ELSE llm_requests = <<"parse">> /\ IsResult(professors_result)
    /\ (llm_requests # <<>> /\ llm_requests[1] # "parse") =>
         /\ Len(llm_requests) = 1
         /\ config.model \notin structured_output_models \/ config.api_choice = "Gemini"

\* A run against a corpus whose structured attempt failed and whose JSON-mode
\* request returned a result.
C24_Witness ==
  /\ FindReturned /\ ~IsError(tavily_results)
  /\ llm_requests = <<"parse", "create">>
  /\ llm_answer.parse.raised
  /\ IsResult(professors_result)

\* The step stores a result of Find Professors: the matcher returned a
\* result, every professor of it went through the enrichment loop, and the
\* stored result is the matcher's with the enriched professors.
StoredAfterEnrichment ==
  /\ pc \in {"find_returned", "enhance"}
  /\ IsResult(professors_result)
  /\ llm_requests # <<>>
  /\ Len(enrichLog') = Len(professors_before')
  /\ Len(professors_before') = Len(professors_result.professors)
  /\ phd_professors' = [professors_result EXCEPT !.professors = enhanced_professors']

\* The step writes the list of a finished analysis into the stored result.
AnalysisFilled ==
  /\ pc = "analyze"
  /\ IsResult(phd_professors)
  /\ Len(hiring_analysis) = Len(phd_professors.professors)
  /\ phd_professors' = [phd_professors EXCEPT !.hiring_analysis = hiring_analysis]

LifecycleStep ==
  /\ phd_professors' # phd_professors => StoredAfterEnrichment \/ AnalysisFilled
  /\ pc' = "analyze" => IsResult(phd_professors) /\ IsResult(phd_professors')
  /\ hiringLog' # hiringLog /\ hiringLog' # <<>> =>
       pc = "analyze" /\ IsResult(phd_professors)
  /\ phd_professors' = NoValue => hiringLog' = <<>> /\ hiring_analysis' = <<>>

\* C25: over any sequence of Find Professors and Analyze Hiring Status
\* clicks, a result is stored only after the matcher returned it and the
\* enrichment of its professors completed, and the hiring analysis runs, and
\* fills hiring_analysis, only on a stored result, never before a
\* successful Find.
C25_LifecycleOrder == [][LifecycleStep]_vars

\* An analysis has filled the stored result of a Find whose professors were
\* enriched, and a later Find is under way.
C25_Witness ==
  /\ clicks = 3 /\ pc = "enhance"
  /\ IsResult(phd_professors) /\ Truthy(phd_professors.professors)
  /\ Len(phd_professors.hiring_analysis) = Len(phd_professors.professors)

\* C28: the hiring lookups of an analysis run use the university of the
\* stored result whose professors they annotate, also when the university
\* input was edited after the Find.
C28_LookupsUseStoredUniversity ==
  pc = "analyze" =>
    \A k \in 1..Len(hiring_queries) :
      hiring_queries[k].university = phd_professors.university

\* No entry of the sequence occurs twice.
NoRepeats(s) == \A i, j \in 1..Len(s) : s[i] = s[j] => i = j

\* C26: a URL that several hits hold is extracted at most once, is the
\* source of at most one block of the combined corpus, and appears at most
\* once in source_urls.
C26_EachUrlOnce ==
  /\ NoRepeats([k \in 1..Len(extractLog) |-> all_search_results[extractLog[k].hit].url])
  /\ (pc = "tavily_returned" /\ tavily_results.kind = "corpus") =>
       /\ NoRepeats(tavily_results.source_urls)
       /\ NoRepeats([k \in 1..Len(tavily_results.extracted_content) |->
                       tavily_results.extracted_content[k].source])

\* The value a search gives to a link field that was unset: the url of the
\* hit of lowest rank whose url holds the pattern, and no value when the
\* call raised or no hit's url holds it.
FilledFromFirstMatch(value, answer, pattern) ==
  LET hits == IF answer.raised THEN <<>> ELSE answer.results IN
    IF \E k \in 1..Len(hits) : In(pattern, hits[k].url)
      THEN \E k \in 1..Len(hits) :
             /\ In(pattern, hits[k].url)
             /\ \A m \in 1..(k - 1) : ~In(pattern, hits[m].url)
             /\ value = hits[k].url
      ELSE value = <<>>

\* C27: for a professor missing a link, google_scholar becomes the url of
\* the first hit, in rank order, whose url contains scholar.google.com, and
\* linkedin that of the first hit whose url contains linkedin.com/in/; a
\* hit that does not match is never used, and the field stays unset when
\* no hit matches.
C27_FirstMatchingHitFills ==
  \A i \in 1..Len(enhanced_professors) :
    /\ professors_before[i].google_scholar = <<>> =>
         /\ enrichLog[i].searched
         /\ FilledFromFirstMatch(enhanced_professors[i].google_scholar,
                                 enrichLog[i].scholar, ScholarPattern)
    /\ professors_before[i].linkedin = <<>> =>
         /\ enrichLog[i].searched
         /\ FilledFromFirstMatch(enhanced_professors[i].linkedin,
                                 enrichLog[i].linkedin, LinkedinPattern)

\* A professor without links whose searches returned a hit that does not
\* match before one that does, and who got the later hit's url in both
\* fields.
C27_Witness ==
  /\ EnrichmentReturned
  /\ \E i \in 1..Len(professors_before) :
       /\ professors_before[i].google_scholar = <<>>
       /\ professors_before[i].linkedin = <<>>
       /\ enrichLog[i].scholar = SearchReturned(<<UrlHit(UrlHomepage), UrlHit(UrlScholarJane),
                                                  UrlHit(UrlScholarRoe)>>)
       /\ enrichLog[i].linkedin = SearchReturned(<<UrlHit(UrlLinkedinCompany),
                                                   UrlHit(UrlLinkedinJane)>>)
       /\ phd_professors.professors[i].google_scholar = UrlScholarJane
       /\ phd_professors.professors[i].linkedin = UrlLinkedinJane

\* C29: every entry of a hiring analysis with is_hiring false has no
\* position type, also when a not-hiring phrase overrides a hiring keyword
\* found before it.
C29_NoPositionTypeUnlessHiring ==
  /\ \A i \in 1..Len(hiring_analysis) :
       ~hiring_analysis[i].is_hiring => hiring_analysis[i].position_type = <<>>
  /\ IsResult(phd_professors) =>
       \A i \in 1..Len(phd_professors.hiring_analysis) :
         ~phd_professors.hiring_analysis[i].is_hiring
           => phd_professors.hiring_analysis[i].position_type = <<>>

\* The run's last LLM request returned a text that is one JSON object, which
\* both json.loads and the brace slice parse to the same raw object.
RawObjectReceived ==
  /\ FindReturned
  /\ llm_requests # <<>>
  /\ \/ /\ llm_requests[Len(llm_requests)] = "create"
        /\ ~llm_answer.create.raised
        /\ llm_answer.create.response.shape = "object"
     \/ /\ llm_requests = <<"generate_content">>
        /\ llm_answer.gemini.shape = "object"

\* What the other of the two normalization paths returns for the text the
\* run received and the university it asked for.
OtherPath ==
  IF llm_requests = <<"generate_content">>
    THEN AfterJsonMode(llm_answer.gemini, university_name)
    ELSE AfterGemini(llm_answer.create.response)

\* C30: for every raw object and requested university the OpenAI JSON-mode
\* path and the Gemini path both fail or return equal results: the same
\* university, the same professors, an empty hiring_analysis.
C30_NormalizationPathsAgree ==
  RawObjectReceived =>
    \/ IsError(professors_result) /\ IsError(OtherPath)
    \/ /\ IsResult(professors_result) /\ IsResult(OtherPath)
       /\ professors_result.university = OtherPath.university
       /\ professors_result.professors = OtherPath.professors
       /\ professors_result.hiring_analysis = <<>>
       /\ OtherPath.hiring_analysis = <<>>
====
